---- MODULE Spec2Model ----
(***************************************************************************)
(* State-machine model of the IGBOT scheduling core: the content store     *)
(* (src/db.py), the assignment engine (src/scheduler/scheduler.py) and the *)
(* dispatcher (src/main.py, cmd_post_due_all).                             *)
(*                                                                         *)
(* Tables are sequences; the index of a row is its AUTOINCREMENT id.       *)
(* SQL NULL is 0 in integer columns and "NULL" in text columns.            *)
(* Timestamps are fixed-width UTC ISO strings in the code, whose           *)
(* lexicographic order is the chronological order; they are integers here. *)
(***************************************************************************)
EXTENDS Integers, Sequences, FiniteSets, TLC

\* ---------------------------------------------------------------- bounds
MaxSlots == 2       \* rows the schedules table may grow to
MaxMemes == 2       \* rows the memes table may grow to
MaxTime == 2        \* the clock runs over 0..MaxTime
MaxStories == 1     \* rows the stories table may grow to
MaxCarousels == 1   \* rows the carousels table may grow to
MaxPlanIdx == 1     \* plan_randomized_slots_ist: loop indexes 0..MaxPlanIdx
MaxCount == 2       \* largest count asked of plan_randomized_slots_ist
MaxDays == 2        \* days planned by plan_week and generate_week_plan
MaxEntries == 2     \* entries of a hand-written plan file
MaxCalls == 2       \* calls of _rotate_hashtags between two writes of the pools
MaxVariants == 2    \* caption variants the captioner returns for a meme

NULL == 0
Times == 1..MaxTime
Dispatchers == {1, 2}          \* concurrent dispatch passes
Assigners == {1, 2}            \* concurrent assignment passes
Creators == {1, 2}             \* concurrent content creators
Generators == {1, 2}           \* concurrent cmd_generate_variants runs
Origins == {"reddit", "twitter"}  \* the scrapers' source strings
ReelsOrigin == "reels-upload"
OriginIds == {"a"}
LimitChoices == {0, 1}         \* 0 stands for None / 0: no LIMIT clause
PlanKinds == {"meme", "story", "reel"}
IngestKinds == PlanKinds \cup {"live"}   \* "live": a kind no handler knows
MemeUrl == [m \in 1..(MaxMemes + 1) |-> <<"m1", "m2", "m3", "m4">>[((m - 1) % 4) + 1]]  \* memes.image_url by id
IstOffsetMin == 330            \* TIMEZONE Asia/Kolkata is UTC+05:30
DayMinutes == 24 * 60

VARIABLES
    now,        \* wall clock
    memes,      \* table memes: [source, source_id, status]
    stories,    \* number of rows of table stories
    carousels,  \* table carousels: the image urls of each row's carousel_items, by position
    captions,   \* table captions: [meme_id, variant_no, caption_text, hashtags, active]
    schedules,  \* table schedules
    posts,      \* table posts
    creator,    \* create_meme_returning_id calls in flight
    asg,        \* assignment passes in flight
    disp,       \* dispatch passes in flight
    handed,     \* history: what was handed to the Publisher, per schedule id,
                \* and whether the first comment that followed it failed
    gen,        \* cmd_generate_variants runs in flight
    hashtag_pools,  \* table hashtag_pools, by name: the fields of tags_csv and active
    trial       \* the last call of a pure function: its inputs and its result

vars == <<now, memes, stories, carousels, captions, schedules, posts, creator, asg, disp, handed, gen, hashtag_pools, trial>>

\* ---------------------------------------------------------------- helpers
\* no run of cmd_generate_variants in flight; no pure function called yet
IdleGenerator == [pc |-> "idle", items |-> <<>>, k |-> 0]
NoTrial == [op |-> "none"]
\* the pools of _rotate_hashtags, in its order; no row of that name
PoolNames == {"trending", "evergreen", "niche", "regional"}
pools == <<"trending", "evergreen", "niche", "regional">>
NoPool == [present |-> FALSE, tags_csv |-> <<>>, active |-> 0]

Min(a, b) == IF a <= b THEN a ELSE b

Range(s) == {s[i] : i \in DOMAIN s}

\* first n elements of s (SQL LIMIT n, Python s[:n])
Take(s, n) == SubSeq(s, 1, Min(n, Len(s)))

\* ORDER BY scheduled_time_utc ASC over a set of schedule ids; rows of equal
\* time come out in rowid order, as SQLite's index scan yields them
RECURSIVE OrderByTimeAsc(_, _)
OrderByTimeAsc(tbl, ids) ==
    IF ids = {} THEN <<>>
    ELSE LET m == CHOOSE x \in ids : \A y \in ids :
                      \/ tbl[x].scheduled_time_utc < tbl[y].scheduled_time_utc
                      \/ /\ tbl[x].scheduled_time_utc = tbl[y].scheduled_time_utc
                         /\ x <= y
         IN <<m>> \o OrderByTimeAsc(tbl, ids \ {m})

\* ORDER BY id DESC over a set of ids
RECURSIVE OrderByIdDesc(_)
OrderByIdDesc(ids) ==
    IF ids = {} THEN <<>>
    ELSE LET m == CHOOSE x \in ids : \A y \in ids : y <= x
         IN <<m>> \o OrderByIdDesc(ids \ {m})

\* ---------------------------------------------------------------- content store: memes
\* mutant: the unique index is missing, every INSERT succeeds
idx_memes_absent(tbl, src, sid) == TRUE

\* CREATE UNIQUE INDEX idx_memes_source_sourceid ON memes(source, source_id)
\* TRUE when a row with this key can be inserted
idx_memes_source_sourceid(tbl, src, sid) ==
    \A i \in DOMAIN tbl : ~(tbl[i].source = src /\ tbl[i].source_id = sid)

\* SELECT id FROM memes WHERE source = ? AND source_id = ?
SelectMemeId(tbl, src, sid) ==
    IF \E i \in DOMAIN tbl : tbl[i].source = src /\ tbl[i].source_id = sid
    THEN CHOOSE i \in DOMAIN tbl : tbl[i].source = src /\ tbl[i].source_id = sid
    ELSE NULL

NewMeme(src, sid) ==
    [source |-> src, source_id |-> sid, status |-> "new", scheduled_time |-> NULL,
     caption |-> "", hashtags |-> <<>>]

IdleCreator == [pc |-> "idle", source |-> "NULL", source_id |-> "NULL", ret |-> NULL, inserted |-> FALSE]

\* insert_meme: INSERT, IntegrityError swallowed (returns False)
insert_meme(src, sid) ==
    /\ Len(memes) < MaxMemes
    /\ memes' = IF idx_memes_source_sourceid(memes, src, sid)
                THEN Append(memes, NewMeme(src, sid))
                ELSE memes
    /\ UNCHANGED <<now, stories, carousels, captions, schedules, posts, creator, asg, disp, handed, gen, trial, hashtag_pools>>

\* create_meme_returning_id, the INSERT statement: on success the call
\* returns lastrowid, on IntegrityError it goes on to the SELECT
create_meme_insert(c, src, sid) ==
    /\ creator[c].pc # "select"
    /\ Len(memes) < MaxMemes \/ ~idx_memes_source_sourceid(memes, src, sid)
    /\ IF idx_memes_source_sourceid(memes, src, sid)
       THEN /\ memes' = Append(memes, NewMeme(src, sid))
            /\ creator' = [creator EXCEPT ![c] =
                   [pc |-> "returned", source |-> src, source_id |-> sid,
                    ret |-> Len(memes) + 1, inserted |-> TRUE]]
       ELSE /\ memes' = memes
            /\ creator' = [creator EXCEPT ![c] =
                   [pc |-> "select", source |-> src, source_id |-> sid,
                    ret |-> NULL, inserted |-> FALSE]]
    /\ UNCHANGED <<now, stories, carousels, captions, schedules, posts, asg, disp, handed, gen, trial, hashtag_pools>>

\* create_meme_returning_id, the SELECT in the except branch
create_meme_select(c) ==
    /\ creator[c].pc = "select"
    /\ creator' = [creator EXCEPT ![c].pc = "returned",
                                  ![c].ret = SelectMemeId(memes, creator[c].source, creator[c].source_id)]
    /\ UNCHANGED <<now, memes, stories, carousels, captions, schedules, posts, asg, disp, handed, gen, trial, hashtag_pools>>

\* generate_caption_hashtags: the caption and the hashtags text the
\* captioner returns; a hashtags text is carried as the list of its '#tag'
\* tokens
generate_caption_hashtags == [caption_text |-> "c1", hashtags |-> <<"#a">>]

\* db.update_caption_hashtags: UPDATE memes SET caption = ?, hashtags = ?,
\* status = 'ready' WHERE id = ?
update_caption_hashtags_row(tbl, meme_id, caption, hashtags) ==
    [tbl EXCEPT ![meme_id].caption = caption, ![meme_id].hashtags = hashtags,
                ![meme_id].status = "ready"]

\* update_caption_hashtags as called by cmd_generate on a meme fetched with
\* status 'new': the meme gets its caption and hashtags and becomes 'ready'
update_caption_hashtags(m) ==
    /\ m \in DOMAIN memes
    /\ memes[m].status = "new"
    /\ memes' = update_caption_hashtags_row(memes, m, generate_caption_hashtags.caption_text,
                                             generate_caption_hashtags.hashtags)
    /\ UNCHANGED <<now, stories, carousels, captions, schedules, posts, creator, asg, disp, handed, gen, trial, hashtag_pools>>

\* schedule_meme: UPDATE memes SET scheduled_time = ?, status = 'queued' WHERE id = ?
schedule_meme(tbl, meme_id, when_iso) ==
    [tbl EXCEPT ![meme_id].scheduled_time = when_iso, ![meme_id].status = "queued"]

\* cmd_schedule(per_posts): the 'ready' memes (ORDER BY id DESC, LIMIT when
\* per_posts is not 0) are queued from next_best_slot on, one stagger apart
RECURSIVE ScheduleAll(_, _, _)
ScheduleAll(tbl, ready, when) ==
    IF ready = <<>> THEN tbl
    ELSE ScheduleAll(schedule_meme(tbl, ready[1], when), SubSeq(ready, 2, Len(ready)), when + 1)

cmd_schedule(per_posts, when_utc) ==
    LET rows == OrderByIdDesc({i \in DOMAIN memes : memes[i].status = "ready"})
        ready == IF per_posts # 0 THEN Take(rows, per_posts) ELSE rows
    IN /\ when_utc >= now
       /\ when_utc + Len(ready) <= MaxTime + 1
       /\ memes' = ScheduleAll(memes, ready, when_utc)
       /\ UNCHANGED <<now, stories, carousels, captions, schedules, posts, creator, asg, disp, handed, gen, hashtag_pools, trial>>

\* fetch_due_memes: queued and scheduled_time <= now
fetch_due_memes(tbl, now_iso, limit) ==
    LET due == {i \in DOMAIN tbl : tbl[i].status = "queued" /\ tbl[i].scheduled_time <= now_iso}
        first(ids) == CHOOSE x \in ids : \A y \in ids :
                          \/ tbl[x].scheduled_time < tbl[y].scheduled_time
                          \/ tbl[x].scheduled_time = tbl[y].scheduled_time /\ x <= y
        a == IF due = {} THEN <<>> ELSE <<first(due)>>
        rest == IF due = {} THEN {} ELSE due \ {a[1]}
        b == IF rest = {} THEN a ELSE a \o <<first(rest)>>
        rest2 == IF rest = {} THEN {} ELSE rest \ {b[2]}
        rows == IF rest2 = {} THEN b ELSE b \o <<first(rest2)>>
    IN IF limit # 0 THEN Take(rows, limit) ELSE rows

\* mark_published / mark_failed
mark_published(tbl, meme_id) == [tbl EXCEPT ![meme_id].status = "posted"]
mark_failed(tbl, meme_id) == [tbl EXCEPT ![meme_id].status = "failed"]

\* cmd_post_due(max_posts): every due meme is posted or, when post_photo
\* raises, failed
cmd_post_due(max_posts, published) ==
    LET due == fetch_due_memes(memes, now, max_posts)
    IN /\ due # <<>>
       /\ published \subseteq Range(due)
       /\ memes' = [m \in DOMAIN memes |->
                       IF m \notin Range(due) THEN memes[m]
                       ELSE IF m \in published THEN mark_published(memes, m)[m]
                       ELSE mark_failed(memes, m)[m]]
       /\ UNCHANGED <<now, stories, carousels, captions, schedules, posts, creator, asg, disp, handed, gen, hashtag_pools, trial>>

\* ---------------------------------------------------------------- schedules table
\* the reference column a Slot of the given kind is bound through
\* (fetch_unassigned_schedules: meme_id for meme/reel, story_id, carousel_id)
RefOf(r) ==
    IF r.kind \in {"meme", "reel"} THEN r.meme_id
    ELSE IF r.kind = "story" THEN r.story_id
    ELSE r.carousel_id

Bound(r) == RefOf(r) # NULL

\* UNIQUE(kind, meme_id, scheduled_time_utc): SQL NULLs are pairwise
\* distinct, so a row with meme_id NULL never conflicts.  TRUE when row r,
\* placed at index self (0 for a row being inserted), conflicts with no row.
UniqueKindMemeTime(tbl, self, r) ==
    \/ r.meme_id = NULL
    \/ \A i \in DOMAIN tbl : i # self =>
           ~(/\ tbl[i].kind = r.kind
             /\ tbl[i].meme_id = r.meme_id
             /\ tbl[i].scheduled_time_utc = r.scheduled_time_utc)

NewSchedule(kind, planned, jitter, sched, meme_id, priority) ==
    [kind |-> kind, meme_id |-> meme_id, story_id |-> NULL, carousel_id |-> NULL,
     caption_variant_no |-> NULL, planned_time_utc |-> planned, jitter_sec |-> jitter,
     scheduled_time_utc |-> sched, status |-> "queued", priority |-> priority,
     error |-> "NULL"]

\* create_schedule / create_schedule_returning_id: the table after the
\* INSERT; an IntegrityError leaves it unchanged and the caller raises
create_schedule(tbl, r) ==
    IF UniqueKindMemeTime(tbl, 0, r) THEN Append(tbl, r) ELSE tbl

\* one iteration of the planners' loops (plan_day: planned == scheduled,
\* jitter_sec 0): an unbound Slot of the kind at time t
PlanSlot(kind, t) ==
    /\ Len(schedules) < MaxSlots
    /\ schedules' = create_schedule(schedules, NewSchedule(kind, t, 0, t, NULL, 0))
    /\ UNCHANGED <<now, memes, stories, carousels, captions, posts, creator, asg, disp, handed, gen, trial, hashtag_pools>>

\* to_utc_iso_z: a wall-clock minute of the IST calendar (counted from IST
\* midnight of the planning day) as a UTC minute; whole minutes carry no
\* microseconds to drop
to_utc_iso_z(dt_ist) == dt_ist - IstOffsetMin

\* random.randint(a, b): the values it may return
randint(a, b) == a..b

\* plan_randomized_slots_ist: the candidate base minute of loop index i
CandidateMinute(i, base_every_min) ==
    (i * (IF base_every_min >= 5 THEN base_every_min ELSE 5)) % DayMinutes

\* plan_randomized_slots_ist: the jittered slots loop index i may append
\* (the candidate may be rejected; a slot outside the day is dropped)
plan_randomized_slots_ist(i, base_every_min, jitter_min) ==
    {CandidateMinute(i, base_every_min) + jitter : jitter \in randint(-jitter_min, jitter_min)}
        \cap (0..(DayMinutes - 1))

\* the minutes of the day the loop indexes 0..MaxPlanIdx can yield
DaySlots == 0..(CandidateMinute(MaxPlanIdx, 60) + 15)

\* plan_day: the Slot created for one entry s of meme_slots (base 60,
\* jitter 15) or story_slots (base 30, jitter 7); planned is s itself
plan_day_slot(kind, i, s) ==
    /\ kind \in {"meme", "story"}
    /\ s \in (IF kind = "meme" THEN plan_randomized_slots_ist(i, 60, 15)
                              ELSE plan_randomized_slots_ist(i, 30, 7))
    /\ PlanSlot(kind, to_utc_iso_z(s))

\* _weights_for_minute, in tenths
weights_for_minute(minute_of_day) ==
    LET hour == minute_of_day \div 60
    IN IF 11 <= hour /\ hour < 13 THEN 20
       ELSE IF 18 <= hour /\ hour < 22 THEN 25
       ELSE IF 0 <= hour /\ hour < 5 THEN 12
       ELSE 10

\* random.random() <= min(1.0, weight / 2.5): random() lies in [0, 1), so a
\* candidate of weight 2.5 is always accepted and any other may be rejected
MayReject(minute) == weights_for_minute(minute) < 25

\* list(dict.fromkeys(slots)): first occurrences, in order
RECURSIVE dict_fromkeys(_)
dict_fromkeys(s) ==
    IF s = <<>> THEN <<>>
    ELSE LET front == dict_fromkeys(SubSeq(s, 1, Len(s) - 1))
             last == s[Len(s)]
         IN IF last \in Range(front) THEN front ELSE Append(front, last)

\* sorted(...) of a list of minutes
RECURSIVE sorted(_)
sorted(s) ==
    IF s = <<>> THEN <<>>
    ELSE LET k == CHOOSE i \in DOMAIN s : \A j \in DOMAIN s : s[i] < s[j] \/ (s[i] = s[j] /\ i <= j)
         IN <<s[k]>> \o sorted(SubSeq(s, 1, k - 1) \o SubSeq(s, k + 1, Len(s)))

\* the for loop of plan_randomized_slots_ist from index i on: every list
\* `slots` it can end with (reject, or accept with one jitter; a jittered
\* minute outside the day is dropped; break once count slots are held)
RECURSIVE PlannerLoop(_, _, _, _, _)
PlannerLoop(i, slots, count, base_every_min, jitter_min) ==
    IF i >= count * 3 THEN {slots}
    ELSE LET minute == CandidateMinute(i, base_every_min)
             rejected == IF MayReject(minute)
                         THEN PlannerLoop(i + 1, slots, count, base_every_min, jitter_min)
                         ELSE {}
             accepted == UNION {
                 LET jittered == minute + jitter
                     slots1 == IF 0 <= jittered /\ jittered < DayMinutes
                               THEN Append(slots, jittered) ELSE slots
                 IN IF Len(slots1) >= count THEN {slots1}
                    ELSE PlannerLoop(i + 1, slots1, count, base_every_min, jitter_min)
                 : jitter \in randint(-jitter_min, jitter_min)}
         IN rejected \cup accepted

\* mutant: the collected slots are returned in the order they were drawn
plan_randomized_slots_ist_unsorted(count, base_every_min, jitter_min) ==
    IF count <= 0 THEN {<<>>}
    ELSE {Take(dict_fromkeys(slots), count) :
             slots \in PlannerLoop(0, <<>>, count, base_every_min, jitter_min)}

\* plan_randomized_slots_ist as a whole: every list it can return, as
\* minutes after day_start
plan_randomized_slots_ist_returns(count, base_every_min, jitter_min) ==
    IF count <= 0 THEN {<<>>}
    ELSE {Take(sorted(dict_fromkeys(slots)), count) :
             slots \in PlannerLoop(0, <<>>, count, base_every_min, jitter_min)}

\* the rows plan_day's or plan_week's loop creates for a list of slots of
\* one kind, planned == scheduled and jitter_sec 0
RECURSIVE CreateAll(_, _, _)
CreateAll(tbl, kind, slots) ==
    IF slots = <<>> THEN tbl
    ELSE CreateAll(create_schedule(tbl, NewSchedule(kind, to_utc_iso_z(slots[1]), 0,
                                                    to_utc_iso_z(slots[1]), NULL, 0)),
                   kind, SubSeq(slots, 2, Len(slots)))

\* mutant: the story slots are created with kind 'meme'
plan_day_one_kind(count_memes, count_stories) ==
    \E meme_slots \in plan_randomized_slots_ist_returns(count_memes, 60, 15),
       story_slots \in plan_randomized_slots_ist_returns(count_stories, 30, 7) :
        /\ schedules = <<>>
        /\ schedules' = CreateAll(CreateAll(schedules, "meme", meme_slots), "meme", story_slots)
        /\ trial' = [op |-> "plan_day", count_memes |-> count_memes, count_stories |-> count_stories]
        /\ UNCHANGED <<now, memes, stories, carousels, captions, posts, creator, asg, disp, handed, gen, hashtag_pools>>

\* plan_day(count_memes, count_stories) on an empty schedules table
plan_day(count_memes, count_stories) ==
    \E meme_slots \in plan_randomized_slots_ist_returns(count_memes, 60, 15),
       story_slots \in plan_randomized_slots_ist_returns(count_stories, 30, 7) :
        /\ schedules = <<>>
        /\ schedules' = CreateAll(CreateAll(schedules, "meme", meme_slots), "story", story_slots)
        /\ trial' = [op |-> "plan_day", count_memes |-> count_memes, count_stories |-> count_stories]
        /\ UNCHANGED <<now, memes, stories, carousels, captions, posts, creator, asg, disp, handed, gen, hashtag_pools>>

\* plan_week: the first base times of base_meme_times / base_story_times
base_meme_times == {7 * 60 + 20, 8 * 60 + 10}
base_story_times == {10 * 60, 10 * 60 + 30}

\* mutant: jitter_sec holds the jitter in minutes
plan_week_slot_minutes(kind, t, meme_jitter_min, story_jitter_min, jitter) ==
    /\ \/ kind = "meme" /\ t \in base_meme_times /\ jitter \in randint(-meme_jitter_min, meme_jitter_min)
       \/ kind = "story" /\ t \in base_story_times /\ jitter \in randint(-story_jitter_min, story_jitter_min)
    /\ Len(schedules) < MaxSlots
    /\ schedules' = create_schedule(schedules,
           NewSchedule(kind, to_utc_iso_z(t), jitter, to_utc_iso_z(t + jitter), NULL, 0))
    /\ UNCHANGED <<now, memes, stories, carousels, captions, posts, creator, asg, disp, handed, gen, trial, hashtag_pools>>

\* plan_week: one iteration of the inner loops for day 0, base time t
plan_week_slot(kind, t, meme_jitter_min, story_jitter_min, jitter) ==
    /\ \/ kind = "meme" /\ t \in base_meme_times /\ jitter \in randint(-meme_jitter_min, meme_jitter_min)
       \/ kind = "story" /\ t \in base_story_times /\ jitter \in randint(-story_jitter_min, story_jitter_min)
    /\ Len(schedules) < MaxSlots
    /\ schedules' = create_schedule(schedules,
           NewSchedule(kind, to_utc_iso_z(t), jitter * 60, to_utc_iso_z(t + jitter), NULL, 0))
    /\ UNCHANGED <<now, memes, stories, carousels, captions, posts, creator, asg, disp, handed, gen, trial, hashtag_pools>>

\* mutant: every kind is jittered with the meme magnitude
ingest_week_plan_entry_one_jitter(kind, t, meme_jitter_min, story_jitter_min, reel_jitter_min, j) ==
    /\ j \in randint(-meme_jitter_min, meme_jitter_min)
    /\ Len(schedules) < MaxSlots
    /\ schedules' = create_schedule(schedules,
           NewSchedule(kind, to_utc_iso_z(t), j * 60, to_utc_iso_z(t + j), NULL, 0))
    /\ UNCHANGED <<now, memes, stories, carousels, captions, posts, creator, asg, disp, handed, gen, trial, hashtag_pools>>

\* ingest_week_plan_json: one iteration of the loop, for the plan entry
\* of the given kind at wall-clock minute t of day 0
ingest_week_plan_entry(kind, t, meme_jitter_min, story_jitter_min, reel_jitter_min, j) ==
    /\ j \in (IF kind = "story" THEN randint(-story_jitter_min, story_jitter_min)
              ELSE IF kind = "reel" THEN randint(-reel_jitter_min, reel_jitter_min)
              ELSE randint(-meme_jitter_min, meme_jitter_min))
    /\ Len(schedules) < MaxSlots
    /\ schedules' = create_schedule(schedules,
           NewSchedule(kind, to_utc_iso_z(t), j * 60, to_utc_iso_z(t + j), NULL, 0))
    /\ UNCHANGED <<now, memes, stories, carousels, captions, posts, creator, asg, disp, handed, gen, trial, hashtag_pools>>

\* the lists of target times of plan_week and of _daily_exact_times, in
\* minutes of the day: twelve meme targets, three reel targets, and
\* [time(h, m) for h in range(10, 22) for m in (0, 30)] + [time(21, 30)]
meme_times ==
    <<7 * 60 + 20, 8 * 60 + 10, 8 * 60 + 55, 12 * 60 + 10, 12 * 60 + 55, 13 * 60 + 40,
      19 * 60 + 10, 20 * 60, 20 * 60 + 50, 21 * 60 + 40, 22 * 60 + 20, 23 * 60 + 45>>
reel_times == <<12 * 60 + 30, 19 * 60 + 45, 21 * 60 + 15>>
story_times == [k \in 1..24 |-> (10 + (k - 1) \div 2) * 60 + 30 * ((k - 1) % 2)] \o <<21 * 60 + 30>>

\* the tables one planner loop can leave: for each base time of the list on
\* day d, in order, a row of the kind with planned = base and scheduled =
\* base + jitter (the list is walked by halves, the first half to its end
\* before the second, which is the same walk)
RECURSIVE PlanTimes(_, _, _, _, _)
PlanTimes(tbls, kind, d, times, jitter_min) ==
    IF times = <<>> THEN tbls
    ELSE IF Len(times) = 1
    THEN LET base_dt == d * DayMinutes + times[1]
         IN {create_schedule(tbl, NewSchedule(kind, to_utc_iso_z(base_dt), jitter * 60,
                                              to_utc_iso_z(base_dt + jitter), NULL, 0)) :
                tbl \in tbls, jitter \in randint(-jitter_min, jitter_min)}
    ELSE LET h == Len(times) \div 2
             first == PlanTimes(tbls, kind, d, SubSeq(times, 1, h), jitter_min)
         IN IF first = {} THEN {}
            ELSE PlanTimes(first, kind, d, SubSeq(times, h + 1, Len(times)), jitter_min)

\* plan_week(days, meme_jitter_min, story_jitter_min) from day d on: every
\* table it can leave; memes and stories only
RECURSIVE plan_week(_, _, _, _, _)
plan_week(tbls, d, days, meme_jitter_min, story_jitter_min) ==
    IF d >= days THEN tbls
    ELSE LET day == PlanTimes(PlanTimes(tbls, "meme", d, meme_times, meme_jitter_min),
                              "story", d, story_times, story_jitter_min)
         IN IF day = {} THEN {}
            ELSE plan_week(day, d + 1, days, meme_jitter_min, story_jitter_min)

\* a plan entry: date is <<d>> for day d (text YYYY-MM-DD) and time is
\* <<hh, mm>> (text HH:MM); category and format are not read by the import
PlanEntry(d, t, kind) == [date |-> <<d>>, time |-> <<t \div 60, t % 60>>, kind |-> kind]

EntriesOf(d, times, kind) == [i \in DOMAIN times |-> PlanEntry(d, times[i], kind)]

\* generate_week_plan(days) from day d on: per day the memes, the reels and
\* the stories of _daily_exact_times
RECURSIVE generate_week_plan(_, _)
generate_week_plan(d, days) ==
    IF d >= days THEN <<>>
    ELSE EntriesOf(d, meme_times, "meme") \o EntriesOf(d, reel_times, "reel")
             \o EntriesOf(d, story_times, "story") \o generate_week_plan(d + 1, days)

\* datetime.strptime(e["date"], "%Y-%m-%d"), e["time"].split(":") and
\* time(hh, mm) succeed: both keys present, a date, two numbers in range
Parses(e) ==
    /\ {"date", "time"} \subseteq DOMAIN e
    /\ Len(e.date) = 1
    /\ Len(e.time) = 2
    /\ e.time[1] \in 0..23 /\ e.time[2] \in 0..59

\* e.get("kind", "meme")
KindOf(e) == IF "kind" \in DOMAIN e THEN e.kind ELSE "meme"

\* ingest_week_plan_json for one entry: it is parsed, and its row created
\* and committed; every outcome [schedules, raised]
ingest_entry(tbl, e, meme_jitter_min, story_jitter_min, reel_jitter_min) ==
    IF ~Parses(e) THEN {[schedules |-> tbl, raised |-> TRUE]}
    ELSE LET base_dt == e.date[1] * DayMinutes + e.time[1] * 60 + e.time[2]
             kind == KindOf(e)
             jitter_min == IF kind = "story" THEN story_jitter_min
                           ELSE IF kind = "reel" THEN reel_jitter_min
                           ELSE meme_jitter_min
         IN {[schedules |-> create_schedule(tbl, NewSchedule(kind, to_utc_iso_z(base_dt), j * 60,
                                                             to_utc_iso_z(base_dt + j), NULL, 0)),
              raised |-> FALSE] : j \in randint(-jitter_min, jitter_min)}

\* ingest_week_plan_json over the entries still to read: every outcome
\* [schedules, raised]; each entry is parsed and its row created and
\* committed before the next entry is looked at, and the entries after one
\* that raised are not read (the list is walked by halves, which is the
\* same walk)
RECURSIVE ingest_week_plan_json(_, _, _, _, _)
ingest_week_plan_json(tbl, entries, meme_jitter_min, story_jitter_min, reel_jitter_min) ==
    IF entries = <<>> THEN {[schedules |-> tbl, raised |-> FALSE]}
    ELSE IF Len(entries) = 1
    THEN ingest_entry(tbl, entries[1], meme_jitter_min, story_jitter_min, reel_jitter_min)
    ELSE LET h == Len(entries) \div 2
             first == ingest_week_plan_json(tbl, SubSeq(entries, 1, h),
                                            meme_jitter_min, story_jitter_min, reel_jitter_min)
         IN IF first = {} THEN {}
            ELSE UNION {IF r.raised THEN {r}
                        ELSE ingest_week_plan_json(r.schedules, SubSeq(entries, h + 1, Len(entries)),
                                                   meme_jitter_min, story_jitter_min, reel_jitter_min) :
                        r \in first}

\* one iteration of cmd_reels_schedule's loop: create_meme_returning_id for
\* the uploaded file, then create_schedule_returning_id with the meme bound;
\* a UNIQUE violation raises out of the command after the meme was created
cmd_reels_schedule(sid, t) ==
    LET fresh == idx_memes_source_sourceid(memes, ReelsOrigin, sid)
        memes1 == IF fresh THEN Append(memes, NewMeme(ReelsOrigin, sid)) ELSE memes
        meme_id == SelectMemeId(memes1, ReelsOrigin, sid)
    IN /\ Len(schedules) < MaxSlots
       /\ Len(memes) < MaxMemes \/ ~fresh
       /\ memes' = memes1
       /\ schedules' = create_schedule(schedules, NewSchedule("reel", t, 0, t, meme_id, 0))
       /\ UNCHANGED <<now, stories, carousels, captions, posts, creator, asg, disp, handed, gen, trial, hashtag_pools>>

\* cmd_reels_pipeline, one uploaded file: create_meme_returning_id (the
\* existing meme of that file name is reused), update_caption_hashtags on
\* it unless caption generation raised, then create_schedule_returning_id
cmd_reels_pipeline(sid, t, captioned) ==
    LET fresh == idx_memes_source_sourceid(memes, ReelsOrigin, sid)
        memes1 == IF fresh THEN Append(memes, NewMeme(ReelsOrigin, sid)) ELSE memes
        meme_id == SelectMemeId(memes1, ReelsOrigin, sid)
        memes2 == IF captioned
                  THEN update_caption_hashtags_row(memes1, meme_id, generate_caption_hashtags.caption_text,
                                                   generate_caption_hashtags.hashtags)
                  ELSE memes1
    IN /\ Len(schedules) < MaxSlots
       /\ Len(memes) < MaxMemes \/ ~fresh
       /\ memes' = memes2
       /\ schedules' = create_schedule(schedules, NewSchedule("reel", t, 0, t, meme_id, 0))
       /\ UNCHANGED <<now, stories, carousels, captions, posts, creator, asg, disp, handed, gen, hashtag_pools, trial>>

\* [u for u in (image_urls or []) if u]: the non-blank urls, in order
UsableUrls(image_urls) == SelectSeq(image_urls, LAMBDA u : u # "")

\* mutant: the list is not cut to its first ten urls
create_carousel_from_urls_uncut(tbl, image_urls) ==
    LET urls == UsableUrls(image_urls)
    IN IF Len(urls) < 2 THEN [carousels |-> tbl, raised |-> TRUE]
       ELSE [carousels |-> Append(tbl, urls), raised |-> FALSE]

\* create_carousel_from_urls: ValueError below two usable urls, before any
\* INSERT; otherwise one carousels row with the first ten urls as its
\* carousel_items, positions 1.. in list order
create_carousel_from_urls(tbl, image_urls) ==
    LET urls == UsableUrls(image_urls)
    IN IF Len(urls) < 2 THEN [carousels |-> tbl, raised |-> TRUE]
       ELSE [carousels |-> Append(tbl, Take(urls, 10)), raised |-> FALSE]

\* SELECT image_url FROM memes WHERE id = ?: "" when there is no such row
select_image_url(tbl, mid) == IF mid \in DOMAIN tbl THEN MemeUrl[mid] ELSE ""

\* create_carousel_from_memes: ValueError below two ids, before any INSERT;
\* otherwise the carousels row is inserted, one item per id whose meme has an
\* image_url, the transaction is committed, and only then RuntimeError is
\* raised when fewer than two items were inserted
create_carousel_from_memes(tbl, mtbl, meme_ids) ==
    IF Len(meme_ids) < 2 THEN [carousels |-> tbl, raised |-> TRUE]
    ELSE LET urls == UsableUrls([i \in DOMAIN meme_ids |-> select_image_url(mtbl, meme_ids[i])])
         IN [carousels |-> Append(tbl, urls), raised |-> Len(urls) < 2]

\* fetch_unassigned_schedules(kind, limit)
fetch_unassigned_schedules(tbl, kind, limit) ==
    LET open == {i \in DOMAIN tbl : tbl[i].kind = kind /\ tbl[i].status = "queued" /\ RefOf(tbl[i]) = NULL}
        rows == OrderByTimeAsc(tbl, open)
    IN IF limit # 0 THEN Take(rows, limit) ELSE rows

\* assign_schedule_carousel: UPDATE schedules SET carousel_id = ? WHERE id = ?
assign_schedule_carousel(tbl, sched_id, carousel_id) ==
    [tbl EXCEPT ![sched_id].carousel_id = carousel_id]

\* cmd_schedule_carousel: create a carousel Slot at t, then bind the
\* earliest open carousel Slot to the given carousel id
cmd_schedule_carousel(carousel_id, t) ==
    LET tbl1 == create_schedule(schedules, NewSchedule("carousel", t, 0, t, NULL, 0))
        rows == fetch_unassigned_schedules(tbl1, "carousel", 1)
    IN /\ Len(schedules) < MaxSlots
       /\ schedules' = IF rows = <<>> THEN tbl1
                       ELSE assign_schedule_carousel(tbl1, rows[1], carousel_id)
       /\ UNCHANGED <<now, memes, stories, carousels, captions, posts, creator, asg, disp, handed, gen, trial, hashtag_pools>>

\* ---------------------------------------------------------------- assignment engine
\* fetch_memes_by_status("ready", limit): ids, ORDER BY id DESC
fetch_memes_by_status(status, limit) ==
    LET rows == OrderByIdDesc({i \in DOMAIN memes : memes[i].status = status})
    IN IF limit # 0 THEN Take(rows, limit) ELSE rows

\* SELECT id FROM schedules WHERE kind=? AND status='queued' AND <ref> IS
\* NULL ORDER BY scheduled_time_utc ASC (scheduler.py, the assigners' query)
OpenRows(kind) == fetch_unassigned_schedules(schedules, kind, 0)

\* fetch_caption_variants: the active variant numbers of a meme
fetch_caption_variants(meme_id) ==
    {c.variant_no : c \in {x \in captions : x.meme_id = meme_id /\ x.active}}

\* mutant: the variant is drawn from the variants of every meme, retired
\* ones included
pick_variant_any(meme_id) ==
    IF captions = {} THEN {NULL} ELSE {c.variant_no : c \in captions}

\* pick_variant_random: the values random.choice may return
pick_variant_random(meme_id) ==
    IF fetch_caption_variants(meme_id) = {} THEN {NULL}
    ELSE fetch_caption_variants(meme_id)

IdleAssigner == [pc |-> "idle", mode |-> "none", ids |-> <<>>, open |-> <<>>, k |-> 0]

\* number of pairs zip(ids, open_rows) yields
Pairs(a) == Min(Len(a.ids), Len(a.open))

StartAssign(mode, ids, open) ==
    IF Min(Len(ids), Len(open)) = 0 THEN IdleAssigner
    ELSE [pc |-> "run", mode |-> mode, ids |-> ids, open |-> open, k |-> 1]

\* cmd_assign_memes / cmd_assign_memes_variants up to the SELECT of the open
\* rows: mode "plain" is assign_memes_to_open_slots, "variants" is
\* assign_memes_with_variants
AssignMemesFetch(a, mode, limit) ==
    /\ asg[a].pc = "idle"
    /\ mode \in {"plain", "variants"}
    /\ LET ids == fetch_memes_by_status("ready", limit)
       IN asg' = [asg EXCEPT ![a] =
              IF ids = <<>> THEN StartAssign(mode, <<>>, <<>>)
              ELSE StartAssign(mode, ids, OpenRows("meme"))]
    /\ UNCHANGED <<now, memes, stories, carousels, captions, schedules, posts, creator, disp, handed, gen, trial, hashtag_pools>>

\* create_and_assign_stories_to_open_slots up to the SELECT of the open
\* rows: max_create stories are inserted first
AssignStoriesFetch(a, max_create) ==
    /\ asg[a].pc = "idle"
    /\ stories + max_create <= MaxStories
    /\ stories' = stories + max_create
    /\ asg' = [asg EXCEPT ![a] =
           StartAssign("story", [i \in 1..max_create |-> stories + i], OpenRows("story"))]
    /\ UNCHANGED <<now, memes, carousels, captions, schedules, posts, creator, disp, handed, gen, trial, hashtag_pools>>

\* mutant: the UPDATE also puts the Slot back to 'queued' at priority 1
BindRowRequeued(r, mode, ref, variant_no) ==
    IF mode = "story" THEN [r EXCEPT !.story_id = ref, !.status = "queued", !.priority = 1]
    ELSE [r EXCEPT !.meme_id = ref, !.caption_variant_no = variant_no,
                   !.status = "queued", !.priority = 1]

\* the UPDATE of one loop iteration, as the row it writes
\*   plain:    UPDATE schedules SET meme_id = ? WHERE id = ?
\*   variants: assign_schedule_meme (meme_id and caption_variant_no)
\*   story:    assign_schedule_story
BindRow(r, mode, ref, variant_no) ==
    IF mode = "story" THEN [r EXCEPT !.story_id = ref]
    ELSE IF mode = "variants" THEN [r EXCEPT !.meme_id = ref, !.caption_variant_no = variant_no]
    ELSE [r EXCEPT !.meme_id = ref]

\* one iteration of the assigners' for loop; an UPDATE that violates
\* UNIQUE(kind, meme_id, scheduled_time_utc) raises IntegrityError out of
\* the pass
AssignStep(a) ==
    /\ asg[a].pc = "run"
    /\ LET sched_id == asg[a].open[asg[a].k]
           ref == asg[a].ids[asg[a].k]
       IN \E variant_no \in (IF asg[a].mode = "variants" THEN pick_variant_random(ref) ELSE {NULL}) :
            LET r == BindRow(schedules[sched_id], asg[a].mode, ref, variant_no)
            IN IF UniqueKindMemeTime(schedules, sched_id, r)
               THEN /\ schedules' = [schedules EXCEPT ![sched_id] = r]
                    /\ asg' = [asg EXCEPT ![a] =
                            IF asg[a].k + 1 > Pairs(asg[a]) THEN IdleAssigner
                            ELSE [@ EXCEPT !.k = @ + 1]]
               ELSE /\ schedules' = schedules
                    /\ asg' = [asg EXCEPT ![a] = IdleAssigner]
    /\ UNCHANGED <<now, memes, stories, carousels, captions, posts, creator, disp, handed, gen, trial, hashtag_pools>>

\* ---------------------------------------------------------------- hashtag rotator
\* tags_csv is held as its comma-separated fields (csv.split(","))

\* str.strip() on the fields the pools are written with
Strip(f) == CASE f = " " -> "" [] f = " a " -> "a" [] OTHER -> f

\* upsert_hashtag_pool: INSERT ... ON CONFLICT(name) DO UPDATE; as history,
\* the call leaves the ids of the Slots that were bound and still queued
\* when the pool was written
upsert_hashtag_pool(name, tags_csv, active) ==
    /\ hashtag_pools' = [hashtag_pools EXCEPT ![name] =
                            [present |-> TRUE, tags_csv |-> tags_csv, active |-> active]]
    /\ trial' = [op |-> "upsert_hashtag_pool",
                 bound |-> {i \in DOMAIN schedules :
                               RefOf(schedules[i]) # NULL /\ schedules[i].status = "queued"}]
    /\ UNCHANGED <<now, memes, stories, carousels, captions, schedules, posts, creator, asg, disp, handed, gen>>

\* db.get_hashtag_pool(name) or "": the tags_csv of the active row of that
\* name, else the empty text, whose only field is empty
get_hashtag_pool(tbl, name) ==
    IF tbl[name].present /\ tbl[name].active = 1 THEN tbl[name].tags_csv ELSE <<"">>

\* [t.strip() for t in csv.split(",") if t.strip()]
TagsOf(csv) == SelectSeq([k \in DOMAIN csv |-> Strip(csv[k])], LAMBDA t : t # "")

\* tags[offset:] + tags[:offset]
Rotated(tags, offset) == SubSeq(tags, offset + 1, Len(tags)) \o SubSeq(tags, 1, offset)

\* the loop over the pools from index i (0-based) on: what picks is extended with
RECURSIVE Picks(_, _, _, _)
Picks(tbl, schedule_id, i, regional_cap) ==
    IF i >= Len(pools) THEN <<>>
    ELSE LET name == pools[i + 1]
             tags == TagsOf(get_hashtag_pool(tbl, name))
             offset == (schedule_id + i * 3) % Len(tags)
             here == IF tags = <<>> THEN <<>>
                     ELSE Take(Rotated(tags, offset), IF name # "regional" THEN 8 ELSE regional_cap)
         IN here \o Picks(tbl, schedule_id, i + 1, regional_cap)

\* " ".join(f"#{t}" for t in ...)
RECURSIVE Join(_)
Join(tags) ==
    IF tags = <<>> THEN ""
    ELSE IF Len(tags) = 1 THEN "#" \o tags[1]
    ELSE "#" \o tags[1] \o " " \o Join(SubSeq(tags, 2, Len(tags)))

\* mutant: the regional pool contributes eight tags like the others
rotate_hashtags_regional8(tbl, schedule_id) ==
    Take(dict_fromkeys(Picks(tbl, schedule_id, 0, 8)), 25)

\* _rotate_hashtags: unique[:25], the tags of the returned text
rotate_hashtags(tbl, schedule_id) ==
    Take(dict_fromkeys(Picks(tbl, schedule_id, 0, 5)), 25)

\* mutant: the rotation also advances with the number of calls made
RotateHashtagsByCall(schedule_id) ==
    LET n == IF trial.op = "_rotate_hashtags" THEN trial.calls ELSE 0
        tags == rotate_hashtags(hashtag_pools, schedule_id + n)
    IN /\ n < MaxCalls
       /\ trial' = [op |-> "_rotate_hashtags", schedule_id |-> schedule_id, calls |-> n + 1,
                    tags |-> tags, out |-> Join(tags)]
       /\ UNCHANGED <<now, memes, stories, carousels, captions, schedules, posts, creator, asg, disp, handed, gen, hashtag_pools>>

\* a call of _rotate_hashtags(schedule_id): the n-th since the pools were
\* last written
RotateHashtags(schedule_id) ==
    LET n == IF trial.op = "_rotate_hashtags" THEN trial.calls ELSE 0
        tags == rotate_hashtags(hashtag_pools, schedule_id)
    IN /\ n < MaxCalls
       /\ trial' = [op |-> "_rotate_hashtags", schedule_id |-> schedule_id, calls |-> n + 1,
                    tags |-> tags, out |-> Join(tags)]
       /\ UNCHANGED <<now, memes, stories, carousels, captions, schedules, posts, creator, asg, disp, handed, gen, hashtag_pools>>

\* ---------------------------------------------------------------- dispatcher
\* fetch_due_schedules(now_iso, kind, limit); kind "" stands for None
DueIds(tbl, now_iso, kind) ==
    {i \in DOMAIN tbl : /\ tbl[i].status = "queued"
                        /\ tbl[i].scheduled_time_utc <= now_iso
                        /\ (kind # "" => tbl[i].kind = kind)}

RowOf(tbl, i) ==
    [id |-> i, kind |-> tbl[i].kind, meme_id |-> tbl[i].meme_id, story_id |-> tbl[i].story_id,
     carousel_id |-> tbl[i].carousel_id, caption_variant_no |-> tbl[i].caption_variant_no,
     when |-> tbl[i].scheduled_time_utc]

fetch_due_schedules(tbl, now_iso, kind, limit) ==
    LET ordered == OrderByTimeAsc(tbl, DueIds(tbl, now_iso, kind))
        ids == IF limit # 0 THEN Take(ordered, limit) ELSE ordered
    IN [j \in 1..Len(ids) |-> RowOf(tbl, ids[j])]

\* mutant: the Post row of a posted Slot is written without its outcome
mark_schedule_posted_post_blank(schedule_id, platform_post_id) ==
    [schedule_id |-> schedule_id, platform_post_id |-> platform_post_id,
     status |-> "queued", error |-> "NULL"]

\* mark_schedule_posted: UPDATE ... SET status='posted', error=NULL WHERE
\* id=?  and  INSERT INTO posts(...,'posted'), one transaction
mark_schedule_posted_sched(tbl, schedule_id) ==
    [tbl EXCEPT ![schedule_id].status = "posted", ![schedule_id].error = "NULL"]

mark_schedule_posted_post(schedule_id, platform_post_id) ==
    [schedule_id |-> schedule_id, platform_post_id |-> platform_post_id,
     status |-> "posted", error |-> "NULL"]

\* mutant: the UPDATE is lost, only the Post row is written
mark_schedule_failed_noupdate(tbl, schedule_id, error) == tbl

\* mutant: the UPDATE has no WHERE clause
mark_schedule_failed_nowhere(tbl, schedule_id, error) ==
    [i \in DOMAIN tbl |-> [tbl[i] EXCEPT !.status = "failed", !.error = error]]

\* mark_schedule_failed: UPDATE ... SET status='failed', error=? WHERE id=?
\* and  INSERT INTO posts(schedule_id, status, error), one transaction
mark_schedule_failed_sched(tbl, schedule_id, error) ==
    [tbl EXCEPT ![schedule_id].status = "failed", ![schedule_id].error = error]

mark_schedule_failed_post(schedule_id, error) ==
    [schedule_id |-> schedule_id, platform_post_id |-> "NULL",
     status |-> "failed", error |-> error]

\* does the loop body reach a Publisher call for this row (post_photo,
\* post_carousel past its own length check, post_reel)
CallsPublisher(row) ==
    \/ row.kind \in {"meme", "reel"} /\ row.meme_id # NULL /\ row.meme_id \in DOMAIN memes
    \/ /\ row.kind = "carousel" /\ row.carousel_id # NULL
       /\ row.carousel_id \in DOMAIN carousels
       /\ Len(carousels[row.carousel_id]) >= 2

\* db.get_caption_variant: SELECT caption_text, hashtags FROM captions WHERE
\* meme_id = ? AND variant_no = ? AND active = 1; the rows found
get_caption_variant(tbl, meme_id, variant_no) ==
    {c \in tbl : c.meme_id = meme_id /\ c.variant_no = variant_no /\ c.active}

\* mutant: the bound variant is not looked up
BaseOfMeme(row) ==
    [caption |-> memes[row.meme_id].caption, tags |-> memes[row.meme_id].hashtags]

\* _, image_url, base_caption, base_tags = m; for a meme Slot, if
\* caption_variant_no: cv = db.get_caption_variant(...); if cv:
\* base_caption, base_tags = cv.  The reel branch reads the meme only.
BaseOf(row) ==
    LET cv == IF row.kind = "meme" /\ row.caption_variant_no # NULL
              THEN get_caption_variant(captions, row.meme_id, row.caption_variant_no)
              ELSE {}
    IN IF cv # {}
       THEN LET c == CHOOSE c \in cv : TRUE IN [caption |-> c.caption_text, tags |-> c.hashtags]
       ELSE [caption |-> memes[row.meme_id].caption, tags |-> memes[row.meme_id].hashtags]

\* mutant: the rotation is keyed by the content unit
RotationByContent(row) == rotate_hashtags(hashtag_pools, RefOf(row))

\* rotated = _rotate_hashtags(schedule_id), inside the loop
Rotation(row) == rotate_hashtags(hashtag_pools, row.id)

\* " ".join([t for t in [base_tags or "", rotated] if t]).strip(), as the
\* list of the '#tag' tokens of the text
tags_combined(base_tags, rotated) == base_tags \o [k \in DOMAIN rotated |-> "#" \o rotated[k]]

\* what the Publisher is given for a row it is called for: the caption of
\* the publish call and the tags of the first comment (the caption of an
\* image set is not carried in the model)
Sent(row) ==
    IF row.kind = "carousel"
    THEN [caption |-> "", tags |-> tags_combined(<<>>, Rotation(row))]
    ELSE [caption |-> BaseOf(row).caption, tags |-> tags_combined(BaseOf(row).tags, Rotation(row))]

\* mutant: the exception of create_comment is not caught
post_then_comment_uncaught(ok, comment_failed, error) ==
    IF ok /\ ~comment_failed THEN [tag |-> "posted", pid |-> "mid", error |-> "NULL"]
    ELSE [tag |-> "failed", pid |-> "NULL", error |-> error]

\* media_id = ig.post_...(...); if tags: try: ig.create_comment(media_id,
\* tags) except Exception: print(Warn); mark_schedule_posted(media_id).
\* ok: the publish call returns; comment_failed: create_comment was called
\* (the tags are not empty) and raised
post_then_comment(ok, comment_failed, error) ==
    IF ok THEN [tag |-> "posted", pid |-> "mid", error |-> "NULL"]
    ELSE [tag |-> "failed", pid |-> "NULL", error |-> error]

\* the body of cmd_post_due_all's for loop for one fetched row, as its
\* outcome; ok is whether the Publisher's publish call succeeds,
\* comment_failed whether the first comment with the tags raised
Attempt(row, ok, comment_failed) ==
    IF row.kind = "meme" /\ row.meme_id # NULL THEN
        IF row.meme_id \notin DOMAIN memes THEN [tag |-> "failed", pid |-> "NULL", error |-> "Meme missing"]
        ELSE post_then_comment(ok, comment_failed, "publish failed")
    ELSE IF row.kind = "story" THEN [tag |-> "posted", pid |-> "", error |-> "NULL"]
    ELSE IF row.kind = "carousel" /\ row.carousel_id # NULL THEN
        IF row.carousel_id \notin DOMAIN carousels THEN [tag |-> "failed", pid |-> "NULL", error |-> "Carousel not found"]
        ELSE IF Len(carousels[row.carousel_id]) < 2 THEN [tag |-> "failed", pid |-> "NULL", error |-> "Carousel requires at least 2 image URLs"]
        ELSE post_then_comment(ok, comment_failed, "publish failed")
    ELSE IF row.kind = "reel" /\ row.meme_id # NULL THEN
        IF row.meme_id \notin DOMAIN memes THEN [tag |-> "failed", pid |-> "NULL", error |-> "Meme missing for reel"]
        ELSE post_then_comment(ok, comment_failed, "Reel publish failed")
    ELSE [tag |-> "skip", pid |-> "NULL", error |-> "NULL"]

\* a pass keeps the rows it fetched, its loop position and, as history,
\* the length of the posts table when it started; a finished pass, or one
\* that raised, leaves nothing behind
IdleDispatcher == [pc |-> "idle", rows |-> <<>>, k |-> 0, base |-> 0]

\* cmd_post_due_all up to the loop: now_iso is read and the due rows are
\* fetched; with no rows the command returns.  The Publisher client is
\* taken to be configured (credential loading is outside the core).
DispatchFetch(p, limit) ==
    /\ disp[p].pc = "idle"
    /\ LET rows == fetch_due_schedules(schedules, now, "", limit)
       IN disp' = [disp EXCEPT ![p] =
              IF rows = <<>> THEN IdleDispatcher
              ELSE [pc |-> "run", rows |-> rows, k |-> 1, base |-> Len(posts)]]
    /\ UNCHANGED <<now, memes, stories, carousels, captions, schedules, posts, creator, asg, handed, gen, trial, hashtag_pools>>

\* one iteration of cmd_post_due_all's for loop
DispatchStep(p) ==
    /\ disp[p].pc = "run"
    /\ LET row == disp[p].rows[disp[p].k]
       IN \E ok \in (IF CallsPublisher(row) THEN BOOLEAN ELSE {TRUE}) :
          \E comment_failed \in (IF CallsPublisher(row) /\ ok /\ Sent(row).tags # <<>>
                                  THEN BOOLEAN ELSE {FALSE}) :
            LET out == Attempt(row, ok, comment_failed)
            IN /\ schedules' =
                     IF out.tag = "posted" THEN mark_schedule_posted_sched(schedules, row.id)
                     ELSE IF out.tag = "failed" THEN mark_schedule_failed_sched(schedules, row.id, out.error)
                     ELSE schedules
               /\ posts' =
                     IF out.tag = "posted" THEN Append(posts, mark_schedule_posted_post(row.id, out.pid))
                     ELSE IF out.tag = "failed" THEN Append(posts, mark_schedule_failed_post(row.id, out.error))
                     ELSE posts
               /\ handed' =
                     IF CallsPublisher(row)
                     THEN [handed EXCEPT ![row.id] = Append(@,
                              [kind |-> row.kind, ref |-> RefOf(row),
                               caption |-> Sent(row).caption, tags |-> Sent(row).tags,
                               comment_failed |-> comment_failed])]
                     ELSE handed
               /\ disp' = [disp EXCEPT ![p] =
                      IF disp[p].k + 1 > Len(disp[p].rows) THEN IdleDispatcher
                      ELSE [@ EXCEPT !.k = @ + 1]]
    /\ UNCHANGED <<now, memes, stories, carousels, captions, creator, asg, gen, trial, hashtag_pools>>

\* time passes
Tick ==
    /\ now < MaxTime
    /\ now' = now + 1
    /\ UNCHANGED <<memes, stories, carousels, captions, schedules, posts, creator, asg, disp, handed, gen, trial, hashtag_pools>>

\* ---------------------------------------------------------------- caption variants
\* fetch_new_memes_with_ocr(limit): ids WHERE status = 'new' ORDER BY id DESC LIMIT ?
fetch_new_memes_with_ocr(tbl, limit) ==
    Take(OrderByIdDesc({m \in DOMAIN tbl : tbl[m].status = "new"}), limit)

\* insert_caption_variants: INSERT OR REPLACE INTO captions (meme_id,
\* variant_no, caption_text, hashtags, active) VALUES (?, ?, ?, ?, 1) for
\* the variants numbered 1..; the row that holds (meme_id, variant_no) is
\* replaced
insert_caption_variants(tbl, meme_id, variants) ==
    {c \in tbl : ~(c.meme_id = meme_id /\ c.variant_no \in DOMAIN variants)}
        \cup {[meme_id |-> meme_id, variant_no |-> i, caption_text |-> variants[i].caption_text,
               hashtags |-> variants[i].hashtags, active |-> TRUE] : i \in DOMAIN variants}

\* cmd_generate_variants: the fetch of the 'new' memes
GenerateFetch(g, limit) ==
    /\ gen[g].pc = "idle"
    /\ LET items == fetch_new_memes_with_ocr(memes, limit)
       IN gen' = [gen EXCEPT ![g] = IF items = <<>> THEN IdleGenerator
                                     ELSE [pc |-> "loop", items |-> items, k |-> 1]]
    /\ UNCHANGED <<now, memes, stories, carousels, captions, schedules, posts, creator, asg, disp, handed, hashtag_pools, trial>>

\* cmd_generate_variants: one iteration of the loop, for the variants the
\* captioner returned; with none, variants[0] raises inside the try and the
\* meme stays as it is; otherwise the variants are stored and
\* update_caption_hashtags sets the meme 'ready' (UPDATE ... WHERE id = ?)
GenerateStep(g, variants) ==
    /\ gen[g].pc = "loop"
    /\ LET meme_id == gen[g].items[gen[g].k]
       IN /\ captions' = insert_caption_variants(captions, meme_id, variants)
          /\ memes' = IF variants = <<>> THEN memes
                       ELSE update_caption_hashtags_row(memes, meme_id, variants[1].caption_text,
                                                        variants[1].hashtags)
    /\ gen' = [gen EXCEPT ![g] = IF gen[g].k = Len(gen[g].items) THEN IdleGenerator
                                  ELSE [gen[g] EXCEPT !.k = gen[g].k + 1]]
    /\ UNCHANGED <<now, stories, carousels, schedules, posts, creator, asg, disp, handed, hashtag_pools, trial>>

\* captions.active (INTEGER NOT NULL DEFAULT 1): the soft-retire flag of a
\* variant.  No command writes it; an operator clears it in the database.
RetireVariant ==
    /\ \E c \in captions :
          /\ c.active
          /\ captions' = (captions \ {c}) \cup {[c EXCEPT !.active = FALSE]}
    /\ UNCHANGED <<now, memes, stories, carousels, schedules, posts, creator, asg, disp, handed, gen, hashtag_pools, trial>>

\* ---------------------------------------------------------------- specifications
Init ==
    /\ now = 0
    /\ memes = <<>>
    /\ stories = 0
    /\ carousels = <<>>
    /\ captions = {}
    /\ schedules = <<>>
    /\ posts = <<>>
    /\ creator = [c \in Creators |-> IdleCreator]
    /\ asg = [a \in Assigners |-> IdleAssigner]
    /\ disp = [p \in Dispatchers |-> IdleDispatcher]
    /\ handed = [i \in 1..MaxSlots |-> <<>>]
    /\ gen = [g \in Generators |-> IdleGenerator]
    /\ hashtag_pools = [name \in PoolNames |-> NoPool]
    /\ trial = NoTrial

Ingest == \E src \in Origins, sid \in OriginIds : insert_meme(src, sid)
Caption == \E m \in 1..MaxMemes : update_caption_hashtags(m)
Plan == \E kind \in PlanKinds, t \in Times : PlanSlot(kind, t)
\* a plan file whose entries fall on the clock's instants, ingested with
\* all jitter magnitudes 0
IngestPlan ==
    \E kind \in IngestKinds, t \in Times :
        ingest_week_plan_entry(kind, t + IstOffsetMin, 0, 0, 0, 0)
ReelsSchedule == \E sid \in OriginIds, t \in Times : cmd_reels_schedule(sid, t)
CreateCarousel ==
    \E image_urls \in {<<"u1">>, <<"u1", "u2">>} :
        /\ Len(carousels) < MaxCarousels
        /\ carousels' = create_carousel_from_urls(carousels, image_urls).carousels
        /\ UNCHANGED <<now, memes, stories, captions, schedules, posts, creator, asg, disp, handed, gen, trial, hashtag_pools>>
ScheduleCarousel == \E cid \in 1..MaxCarousels, t \in Times : cmd_schedule_carousel(cid, t)

\* the pipeline with one pass of each sort at a time
NextSeq ==
    \/ Tick
    \/ Ingest
    \/ Caption
    \/ Plan
    \/ IngestPlan
    \/ ReelsSchedule
    \/ CreateCarousel
    \/ ScheduleCarousel
    \/ \E mode \in {"plain", "variants"}, limit \in LimitChoices : AssignMemesFetch(1, mode, limit)
    \/ \E n \in 1..MaxStories : AssignStoriesFetch(1, n)
    \/ AssignStep(1)
    \/ \E limit \in LimitChoices : DispatchFetch(1, limit)
    \/ DispatchStep(1)

SeqSpec == Init /\ [][NextSeq]_vars

\* the auto-run loop keeps dispatching with a limit (cmd_auto_run: while
\* True ... cmd_post_due_all(30)), and a pass that started runs to its end
FairSeqSpec ==
    /\ SeqSpec
    /\ WF_vars(\E limit \in LimitChoices \ {0} : DispatchFetch(1, limit))
    /\ WF_vars(DispatchStep(1))

\* the pipeline with dispatch passes run concurrently (an operator's manual
\* post-due run beside the loop's)
Next ==
    \/ Tick
    \/ Ingest
    \/ Caption
    \/ Plan
    \/ \E mode \in {"plain", "variants"}, limit \in LimitChoices : AssignMemesFetch(1, mode, limit)
    \/ \E n \in 1..MaxStories : AssignStoriesFetch(1, n)
    \/ AssignStep(1)
    \/ \E p \in Dispatchers, limit \in LimitChoices : DispatchFetch(p, limit)
    \/ \E p \in Dispatchers : DispatchStep(p)

Spec == Init /\ [][Next]_vars

\* planning and assignment with assignment passes run concurrently (an
\* operator's manual assign run beside the loop's)
NextAssign ==
    \/ Ingest
    \/ Caption
    \/ Plan
    \/ \E a \in Assigners, mode \in {"plain", "variants"}, limit \in LimitChoices :
           AssignMemesFetch(a, mode, limit)
    \/ \E a \in Assigners, n \in 1..MaxStories : AssignStoriesFetch(a, n)
    \/ \E a \in Assigners : AssignStep(a)

AssignSpec == Init /\ [][NextAssign]_vars

\* the planners on their own, with the default jitter magnitudes
\* (cmd_plan_week / cmd_ingest_week: 15, 7 and 12 minutes), and the
\* commands that schedule a reel or an image set at a given instant.  A loop
\* iteration of a planner does not read the table and an unbound Slot
\* never conflicts with another, so each is applied to the empty table.
NextPlan ==
    /\ schedules = <<>>
    /\ \/ \E kind \in {"meme", "story"}, i \in 0..MaxPlanIdx, s \in DaySlots :
              plan_day_slot(kind, i, s)
       \/ \E kind \in {"meme", "story"}, t \in base_meme_times \cup base_story_times, jitter \in -15..15 :
              plan_week_slot(kind, t, 15, 7, jitter)
       \/ \E kind \in IngestKinds, j \in -15..15 :
              ingest_week_plan_entry(kind, 12 * 60 + 30, 15, 7, 12, j)
       \/ ReelsSchedule
       \/ \E sid \in OriginIds, t \in Times, captioned \in BOOLEAN : cmd_reels_pipeline(sid, t, captioned)
       \/ ScheduleCarousel

PlanSpec == Init /\ [][NextPlan]_vars

\* the content store under concurrent creators
NextStore ==
    \/ Ingest
    \/ \E c \in Creators, src \in Origins \cup {ReelsOrigin}, sid \in OriginIds :
           create_meme_insert(c, src, sid)
    \/ \E c \in Creators : create_meme_select(c)
    \/ Caption

StoreSpec == Init /\ [][NextStore]_vars

\* one call of the planner on its own, or of plan_day on the empty table
PlanBases == {1, 5, 720, 1140}   \* base_every_min: below the floor of 5, the floor, half a day, 19:00
PlanJitters == {0, 3}            \* jitter_min
DayCounts == 0..1                \* count_memes, count_stories

PlanRandomized ==
    \E count \in 0..MaxCount, base_every_min \in PlanBases, jitter_min \in PlanJitters :
        \E slots \in plan_randomized_slots_ist_returns(count, base_every_min, jitter_min) :
            /\ trial' = [op |-> "plan_randomized_slots_ist", count |-> count,
                         base_every_min |-> base_every_min, jitter_min |-> jitter_min,
                         slots |-> slots]
            /\ UNCHANGED <<now, memes, stories, carousels, captions, schedules, posts, creator, asg, disp, handed, gen, hashtag_pools>>

PlanDay == \E count_memes \in DayCounts, count_stories \in DayCounts : plan_day(count_memes, count_stories)

NextPlanner ==
    /\ trial = NoTrial
    /\ \/ PlanRandomized
       \/ PlanDay

PlannerSpec == Init /\ [][NextPlanner]_vars

\* one weekly planning run on the empty table: plan_week, the import of an
\* exported plan, or the import of a hand-written file
WeekDays == 1..MaxDays
WeekJitters == {0, 1}            \* reel_jitter_min, and meme_jitter_min of a short file
FileEntries ==
    {PlanEntry(0, meme_times[1], "meme"), PlanEntry(0, story_times[1], "story"),
     [date |-> <<0>>, time |-> <<7, 20>>],                       \* no kind
     [date |-> <<>>, time |-> <<7, 20>>, kind |-> "meme"],       \* bad date
     [date |-> <<0>>, time |-> <<25, 0>>, kind |-> "meme"],      \* bad time
     [date |-> <<0>>, kind |-> "story"]}                         \* no time
Files == UNION {[1..n -> FileEntries] : n \in 0..MaxEntries}

\* plan_week with both jitter magnitudes 0 (jittered weekly Slots are
\* PlanSpec's)
PlanWeek ==
    \E days \in WeekDays :
        \E tbl \in plan_week({schedules}, 0, days, 0, 0) :
            /\ schedules' = tbl
            /\ trial' = [op |-> "plan_week", days |-> days, entries |-> <<>>, raised |-> FALSE]
            /\ UNCHANGED <<now, memes, stories, carousels, captions, posts, creator, asg, disp, handed, gen, hashtag_pools>>

\* export_week_plan_json then ingest_week_plan_json of the written file
IngestExported ==
    \E days \in WeekDays, reel_jitter_min \in WeekJitters :
        \E r \in ingest_week_plan_json(schedules, generate_week_plan(0, days), 0, 0, reel_jitter_min) :
            /\ schedules' = r.schedules
            /\ trial' = [op |-> "export_ingest", days |-> days,
                         entries |-> generate_week_plan(0, days), raised |-> r.raised]
            /\ UNCHANGED <<now, memes, stories, carousels, captions, posts, creator, asg, disp, handed, gen, hashtag_pools>>

IngestFile ==
    \E entries \in Files, meme_jitter_min \in WeekJitters :
        \E r \in ingest_week_plan_json(schedules, entries, meme_jitter_min, 0, 0) :
            /\ schedules' = r.schedules
            /\ trial' = [op |-> "ingest_week_plan_json", days |-> 0, entries |-> entries, raised |-> r.raised]
            /\ UNCHANGED <<now, memes, stories, carousels, captions, posts, creator, asg, disp, handed, gen, hashtag_pools>>

NextWeek ==
    /\ trial = NoTrial
    /\ schedules = <<>>
    /\ \/ PlanWeek
       \/ IngestExported
       \/ IngestFile

WeekSpec == Init /\ [][NextWeek]_vars

\* the carousel store: memes are ingested and carousels are created from
\* image urls or from meme ids
UrlName == <<"u01", "u02", "u03", "u04", "u05", "u06", "u07", "u08", "u09", "u10", "u11", "u12">>
ShortUrlLists == UNION {[1..n -> {"", "a", "b"}] : n \in 0..3}
LongUrlLists ==
    {[i \in 1..n |-> UrlName[i]] : n \in 9..12}
        \cup {<<"">> \o [i \in 1..n |-> UrlName[i]] : n \in 9..12}
        \cup {[i \in 1..n |-> IF i = 5 THEN "" ELSE UrlName[i]] : n \in 9..12}
UrlInputs == ShortUrlLists \cup LongUrlLists
MemeIdInputs ==
    UNION {[1..n -> 1..(MaxMemes + 1)] : n \in 1..2} \cup {[i \in 1..11 |-> 1]}

CreateCarouselFromUrls(image_urls) ==
    LET r == create_carousel_from_urls(carousels, image_urls)
    IN /\ Len(carousels) < MaxCarousels
       /\ carousels' = r.carousels
       /\ trial' = [op |-> "create_carousel_from_urls", image_urls |-> image_urls,
                    meme_ids |-> <<>>, raised |-> r.raised]
       /\ UNCHANGED <<now, memes, stories, captions, schedules, posts, creator, asg, disp, handed, gen, hashtag_pools>>

\* cmd_create_carousel
CreateCarouselFromMemes(meme_ids) ==
    LET r == create_carousel_from_memes(carousels, memes, meme_ids)
    IN /\ Len(carousels) < MaxCarousels
       /\ carousels' = r.carousels
       /\ trial' = [op |-> "create_carousel_from_memes", image_urls |-> <<>>,
                    meme_ids |-> meme_ids, raised |-> r.raised]
       /\ UNCHANGED <<now, memes, stories, captions, schedules, posts, creator, asg, disp, handed, gen, hashtag_pools>>

NextCarousel ==
    \/ Ingest
    \/ \E image_urls \in UrlInputs : CreateCarouselFromUrls(image_urls)
    \/ \E meme_ids \in MemeIdInputs : CreateCarouselFromMemes(meme_ids)

CarouselSpec == Init /\ [][NextCarousel]_vars

\* the rotator over pools that are written between its calls
Digits == <<"0", "1", "2", "3", "4", "5", "6", "7", "8", "9">>
BigPool(name) ==
    LET initial == CASE name = "trending" -> "t" [] name = "evergreen" -> "e"
                     [] name = "niche" -> "n" [] OTHER -> "r"
    IN [k \in 1..10 |-> initial \o Digits[k]]
CsvChoices(name) == {BigPool(name), <<"a", " ", " a ", "A", "b">>, <<"">>}
RotateIds == 1..3                \* schedule_id

UpsertPool ==
    \E name \in PoolNames, active \in {0, 1} :
        \E tags_csv \in CsvChoices(name) : upsert_hashtag_pool(name, tags_csv, active)

Rotate == \E schedule_id \in RotateIds : RotateHashtags(schedule_id)

NextRotate ==
    \/ UpsertPool
    \/ Rotate

RotateSpec == Init /\ [][NextRotate]_vars

\* overlapping runs of cmd_generate_variants over ingested memes
VariantChoices == {[caption_text |-> "c1", hashtags |-> <<"#a">>], [caption_text |-> "c2", hashtags |-> <<"#h2">>]}
VariantLists == UNION {[1..n -> VariantChoices] : n \in 0..MaxVariants}
GenerateLimits == {1, 2}

NextGenerate ==
    \/ Ingest
    \/ \E g \in Generators, limit \in GenerateLimits : GenerateFetch(g, limit)
    \/ \E g \in Generators, variants \in VariantLists : GenerateStep(g, variants)

GenerateSpec == Init /\ [][NextGenerate]_vars

\* the content lifecycle: ingest, captioning, the reels pipeline, and the
\* direct scheduling and posting of memes
Schedule == \E per_posts \in LimitChoices, when_utc \in Times : cmd_schedule(per_posts, when_utc)
PostDue == \E max_posts \in LimitChoices, published \in SUBSET (1..MaxMemes) : cmd_post_due(max_posts, published)
ReelsPipeline == \E sid \in OriginIds, t \in Times, captioned \in BOOLEAN : cmd_reels_pipeline(sid, t, captioned)

NextLifecycle ==
    \/ Tick
    \/ Ingest
    \/ Caption
    \/ ReelsPipeline
    \/ Schedule
    \/ PostDue

LifecycleSpec == Init /\ [][NextLifecycle]_vars

\* planning, variant generation, variant-selecting assignment, pool
\* maintenance and dispatch of meme Slots, one pass of each sort at a time
\* (cmd_auto_run's cycle, with an operator adding hashtag pools); the
\* Slots are planned for the current instant, so they are due at once
PublishPools == {<<"a", "b">>}
PublishVariants ==
    {<<>>,
     <<[caption_text |-> "c1", hashtags |-> <<"#a">>]>>,
     <<[caption_text |-> "c1", hashtags |-> <<"#a">>], [caption_text |-> "c2", hashtags |-> <<"#h2">>]>>}

UpsertPublishPool ==
    \E tags_csv \in PublishPools : upsert_hashtag_pool("trending", tags_csv, 1)

NextPublish ==
    \/ Ingest
    \/ GenerateFetch(1, MaxMemes)
    \/ \E variants \in PublishVariants : GenerateStep(1, variants)
    \/ PlanSlot("meme", 0)
    \/ RetireVariant
    \/ AssignMemesFetch(1, "variants", 0)
    \/ AssignStep(1)
    \/ UpsertPublishPool
    \/ DispatchFetch(1, 0)
    \/ DispatchStep(1)

PublishSpec == Init /\ [][NextPublish]_vars

\* ---------------------------------------------------------------- claims
\* a dispatch pass takes its last step
PassEnds(p) == disp[p].pc = "run" /\ disp'[p].pc = "idle"

\* the Post rows appended since pass p started, and those of one Slot
NewPosts(p) == {n \in DOMAIN posts' : n > disp[p].base}
NewPostsOf(p, sid) == {n \in NewPosts(p) : posts'[n].schedule_id = sid}

\* the Slot of a fetched row ends posted with exactly one new posted Post
\* row whose platform id satisfies IdOk(kind, id), or failed with exactly
\* one new failed Post row carrying the error text
SettledBy(p, row, IdOk(_, _)) ==
    \E n \in NewPostsOf(p, row.id) :
        /\ NewPostsOf(p, row.id) = {n}
        /\ \/ /\ schedules'[row.id].status = "posted"
              /\ posts'[n].status = "posted"
              /\ posts'[n].error = "NULL"
              /\ IdOk(row.kind, posts'[n].platform_post_id)
           \/ /\ schedules'[row.id].status = "failed"
              /\ posts'[n].status = "failed"
              /\ posts'[n].platform_post_id = "NULL"
              /\ posts'[n].error # "NULL"
              /\ schedules'[row.id].error = posts'[n].error

IsPlatformId(kind, id) == id \notin {"NULL", ""}

IdOrStoryPlaceholder(kind, id) ==
    IF kind = "story" THEN id = "" ELSE id \notin {"NULL", ""}

C2_AtMostOncePerSlot ==
    \A i \in DOMAIN handed :
        /\ Len(handed[i]) <= 1
        /\ Cardinality({n \in DOMAIN posts : posts[n].schedule_id = i}) <= 1

\* C3: a Slot is bound at most once: a content reference that has been set
\* is never overwritten by another bind
C3_BoundOnce ==
    [][\A i \in DOMAIN schedules :
          Bound(schedules[i]) => RefOf(schedules'[i]) = RefOf(schedules[i])]_vars

\* C4: a Slot's status changes only from queued to posted or from queued to
\* failed; a Slot that is posted or failed never changes status again
C4_StatusTerminal ==
    [][\A i \in DOMAIN schedules :
          schedules'[i].status # schedules[i].status =>
              /\ schedules[i].status = "queued"
              /\ schedules'[i].status \in {"posted", "failed"}]_vars

\* a step of pass p marks a Slot failed
FailStep(p) ==
    /\ disp[p].pc = "run"
    /\ disp'[p] # disp[p]
    /\ Len(posts') = Len(posts) + 1
    /\ posts'[Len(posts')].status = "failed"

\* the failure touches the failing Slot's status and error only, and
\* appends that Slot's Post row only
FailureIsLocal(p) ==
    LET sid == disp[p].rows[disp[p].k].id
    IN /\ posts'[Len(posts')].schedule_id = sid
       /\ SubSeq(posts', 1, Len(posts)) = posts
       /\ \A i \in DOMAIN schedules : i # sid => schedules'[i] = schedules[i]
       /\ schedules'[sid] = [schedules[sid] EXCEPT !.status = "failed",
                                                    !.error = posts'[Len(posts')].error]

\* pass p has appended a failed Post row
PassHadFailure(p) == \E n \in NewPosts(p) : posts'[n].status = "failed"

C6_DueBoundEventuallyTerminal ==
    \A i \in 1..MaxSlots :
        (/\ i \in DOMAIN schedules
         /\ Bound(schedules[i])
         /\ schedules[i].status = "queued"
         /\ schedules[i].scheduled_time_utc <= now)
        ~> (i \in DOMAIN schedules /\ schedules[i].status \in {"posted", "failed"})

\* the Publisher calls made for meme Slots with meme m
HandedMeme(m) ==
    {x \in (DOMAIN handed) \X (1..Cardinality(Dispatchers)) :
        /\ x[2] \in DOMAIN handed[x[1]]
        /\ handed[x[1]][x[2]].kind = "meme"
        /\ handed[x[1]][x[2]].ref = m}

\* C7: across any number of assignment and dispatch passes, each content
\* unit is handed to the Publisher at most once
C7_ContentPublishedOnce ==
    \A m \in 1..MaxMemes : Cardinality(HandedMeme(m)) <= 1

\* C8: creating content with an (origin, origin_id) that already exists
\* returns the id of the existing record and inserts no second row; the
\* table never holds two rows with the same (origin, origin_id)
C8_CreateIdempotent ==
    /\ \A i, j \in DOMAIN memes :
          (memes[i].source = memes[j].source /\ memes[i].source_id = memes[j].source_id) => i = j
    /\ \A c \in Creators : creator[c].pc = "returned" =>
          /\ creator[c].ret \in DOMAIN memes
          /\ memes[creator[c].ret].source = creator[c].source
          /\ memes[creator[c].ret].source_id = creator[c].source_id

\* C8's case: a create call met an existing (origin, origin_id) and
\* returned the existing id without inserting
C8_Witness ==
    \E c \in Creators :
        /\ creator[c].pc = "returned"
        /\ ~creator[c].inserted
        /\ creator[c].ret \in DOMAIN memes

\* C9: creating a second Slot whose (kind, bound content id,
\* scheduled_time) equals that of an existing Slot is rejected, for every
\* kind of content reference: no two Slots share (kind, content id,
\* scheduled_time)
C9_NoDoubleBooking ==
    \A i, j \in DOMAIN schedules :
        (/\ i # j
         /\ Bound(schedules[i])
         /\ schedules[i].kind = schedules[j].kind
         /\ RefOf(schedules[i]) = RefOf(schedules[j]))
        => schedules[i].scheduled_time_utc # schedules[j].scheduled_time_utc

\* C10: when an assignment pass ends, the i-th open Slot in ascending
\* scheduled_time order is bound to the i-th content id submitted, for
\* every i up to min(n, k)
C10_AssignFIFO ==
    [][\A a \in Assigners : (asg[a].pc = "run" /\ asg'[a].pc = "idle") =>
          /\ \A i, j \in DOMAIN asg[a].open : i < j =>
                schedules[asg[a].open[i]].scheduled_time_utc
                    <= schedules[asg[a].open[j]].scheduled_time_utc
          /\ \A i \in 1..Pairs(asg[a]) :
                RefOf(schedules'[asg[a].open[i]]) = asg[a].ids[i]]_vars

\* an assignment pass takes its last step
AssignEnds(a) == asg[a].pc = "run" /\ asg'[a].pc = "idle"

\* assignment pass a takes a step
AssignMoves(a) == asg[a].pc = "run" /\ asg'[a] # asg[a]

\* C11: with n content ids submitted and k open Slots, an assignment pass
\* binds exactly min(n, k) of its open Slots; no step of the pass touches
\* the k - min(n, k) surplus Slots, which it found queued and unbound, nor
\* the status of the surplus content (memes stay ready)
C11_AssignUnderfill ==
    [][\A a \in Assigners :
          /\ AssignMoves(a) =>
                 /\ \A j \in DOMAIN asg[a].open : j > Pairs(asg[a]) =>
                        schedules'[asg[a].open[j]] = schedules[asg[a].open[j]]
                 /\ \A i \in DOMAIN asg[a].ids : (i > Pairs(asg[a]) /\ asg[a].mode # "story") =>
                        memes'[asg[a].ids[i]].status = "ready"
          /\ AssignEnds(a) =>
                 Cardinality({j \in DOMAIN asg[a].open : Bound(schedules'[asg[a].open[j]])})
                     = Min(Len(asg[a].ids), Len(asg[a].open))]_vars

\* dispatch pass p takes a step, on the row at its loop position
DispatchMoves(p) == disp[p].pc = "run" /\ disp'[p] # disp[p]
CurrentRow(p) == disp[p].rows[disp[p].k]

\* the kind has a branch in the dispatcher's loop body
HasHandler(kind) == kind \in {"meme", "story", "carousel", "reel"}

\* the row's content reference names an existing record
Resolves(row) ==
    IF row.kind \in {"meme", "reel"} THEN row.meme_id \in DOMAIN memes
    ELSE IF row.kind = "story" THEN row.story_id \in 1..stories
    ELSE row.carousel_id \in DOMAIN carousels

\* the step of pass p marks Slot sid failed with an error text and appends
\* its failed Post row, and the pass goes on
FailsSlot(p, sid) ==
    /\ schedules'[sid].status = "failed"
    /\ schedules'[sid].error # "NULL"
    /\ Len(posts') = Len(posts) + 1
    /\ posts'[Len(posts')].schedule_id = sid
    /\ posts'[Len(posts')].status = "failed"
    /\ posts'[Len(posts')].error = schedules'[sid].error
    /\ \/ disp'[p].pc = "run" /\ disp'[p].k = disp[p].k + 1
       \/ disp'[p].pc = "idle" /\ disp[p].k = Len(disp[p].rows)

\* C12: a due Slot whose kind has no handler, or whose bound reference does
\* not resolve to an existing record, is failed by the pass: status failed,
\* error text stored, a failed Post row appended, and the pass continues
C12_UnresolvedFails ==
    [][\A p \in Dispatchers : DispatchMoves(p) =>
          LET row == CurrentRow(p)
          IN (~HasHandler(row.kind) \/ (Bound(row) /\ ~Resolves(row)))
                 => FailsSlot(p, row.id)]_vars

\* C13: the Dispatcher acts only on bound Slots: no step publishes for,
\* changes the status of, or appends a Post row for a Slot whose content
\* reference is null (a story Slot with no story bound included)
C13_ActsOnlyOnBound ==
    [][\A i \in DOMAIN schedules : ~Bound(schedules[i]) =>
          /\ schedules'[i].status = schedules[i].status
          /\ handed'[i] = handed[i]
          /\ \A n \in DOMAIN posts' : n > Len(posts) => posts'[n].schedule_id # i]_vars

\* C14: a Slot that is past its scheduled_time, still queued and never
\* bound is eventually moved to status skipped by the Dispatcher
C14_UnboundEventuallySkipped ==
    \A i \in 1..MaxSlots :
        (/\ i \in DOMAIN schedules
         /\ ~Bound(schedules[i])
         /\ schedules[i].status = "queued"
         /\ schedules[i].scheduled_time_utc < now)
        ~> (i \in DOMAIN schedules
            /\ (schedules[i].status = "skipped" \/ Bound(schedules[i])))

\* the step of pass p published the media of its row and the first comment
\* with the tags then failed
CommentFailed(p) ==
    /\ DispatchMoves(p)
    /\ Len(handed'[CurrentRow(p).id]) = Len(handed[CurrentRow(p).id]) + 1
    /\ handed'[CurrentRow(p).id][Len(handed'[CurrentRow(p).id])].comment_failed

\* C15: if publishing a Slot's media succeeds but attaching the tags as a
\* first comment fails, the Slot is marked posted and a posted Post row
\* with the platform id is appended
C15_CommentFailureTolerated ==
    [][\A p \in Dispatchers : CommentFailed(p) =>
          /\ schedules'[CurrentRow(p).id].status = "posted"
          /\ schedules'[CurrentRow(p).id].error = "NULL"
          /\ posts' = Append(posts, [schedule_id |-> CurrentRow(p).id, platform_post_id |-> "mid",
                                      status |-> "posted", error |-> "NULL"])]_vars

\* C15's case: a Slot's media was published, its first comment failed, and
\* the Slot stands posted with its Post row
C15_Witness ==
    \E i \in DOMAIN schedules :
        /\ schedules[i].status = "posted"
        /\ \E n \in DOMAIN handed[i] : handed[i][n].comment_failed
        /\ \E n \in DOMAIN posts : posts[n].schedule_id = i /\ posts[n].platform_post_id = "mid"

\* C16: a failure while attaching the tags as a first comment counts as a
\* dispatch failure of the Slot: the Slot is marked failed, the error text
\* is stored and a failed Post row is appended
C16_CommentFailureFails ==
    [][\A p \in Dispatchers : CommentFailed(p) => FailsSlot(p, CurrentRow(p).id)]_vars

\* the Post rows of Slot sid in table tbl
PostsOf(tbl, sid) == {n \in DOMAIN tbl : tbl[n].schedule_id = sid}

\* C17: the posts table is append-only; a dispatcher step that attempts a
\* Slot (marks it posted or failed) appends exactly one Post row, for that
\* Slot, and any other step appends none; a Slot has at most one Post row
C17_PostRowPerAttempt ==
    [][/\ Len(posts') >= Len(posts)
       /\ SubSeq(posts', 1, Len(posts)) = posts
       /\ \A i \in DOMAIN schedules :
              IF schedules'[i].status # schedules[i].status
                    \/ (\E p \in Dispatchers : DispatchMoves(p) /\ CurrentRow(p).id = i
                                                  /\ schedules'[i].status # "queued")
              THEN /\ Len(posts') = Len(posts) + 1
                   /\ posts'[Len(posts')].schedule_id = i
              ELSE PostsOf(posts', i) = PostsOf(posts, i)
       /\ \A i \in DOMAIN schedules' : Cardinality(PostsOf(posts', i)) <= 1]_vars

\* rows come in non-decreasing scheduled_time order
SortedByWhen(rows) == \A i, j \in DOMAIN rows : i < j => rows[i].when <= rows[j].when

\* C18: for every kind filter and every limit >= 0, the selection of a
\* dispatch pass holds only queued Slots with scheduled_time <= now, of the
\* given kind when one is given, at most limit of them, in non-decreasing
\* scheduled_time order; a pass attempts its rows in that order
C18_SelectionBounded ==
    /\ \A kind \in {""} \cup IngestKinds \cup {"carousel"}, limit \in 0..MaxSlots :
          LET rows == fetch_due_schedules(schedules, now, kind, limit)
          IN /\ \A j \in DOMAIN rows :
                    /\ schedules[rows[j].id].status = "queued"
                    /\ rows[j].when <= now
                    /\ kind # "" => rows[j].kind = kind
             /\ Len(rows) <= limit
             /\ SortedByWhen(rows)
    /\ \A p \in Dispatchers : disp[p].pc = "run" => SortedByWhen(disp[p].rows)

\* the Slot a planning step has just created, and the distance in minutes
\* between its stored scheduled_time and planned_time
Created == schedules'[Len(schedules')]
Abs(x) == IF x < 0 THEN -x ELSE x
JitterOf(r) == Abs(r.scheduled_time_utc - r.planned_time_utc)

\* C19: for every Slot created by a planning path with jitter magnitude J
\* minutes (daily plan: 15 for memes, 7 for stories; weekly plan and plan
\* import: the magnitude given for the Slot's kind), the stored
\* scheduled_time differs from the stored planned_time by at most J minutes
C19_JitterBound ==
    [][/\ \A kind \in {"meme", "story"}, i \in 0..MaxPlanIdx, s \in DaySlots :
              plan_day_slot(kind, i, s) =>
                  JitterOf(Created) <= (IF kind = "meme" THEN 15 ELSE 7)
       /\ \A kind \in {"meme", "story"}, t \in base_meme_times \cup base_story_times, jitter \in -15..15 :
              plan_week_slot(kind, t, 15, 7, jitter) =>
                  JitterOf(Created) <= (IF kind = "meme" THEN 15 ELSE 7)
       /\ \A kind \in IngestKinds, j \in -15..15 :
              ingest_week_plan_entry(kind, 12 * 60 + 30, 15, 7, 12, j) =>
                  JitterOf(Created) <= (IF kind = "story" THEN 7
                                        ELSE IF kind = "reel" THEN 12 ELSE 15)]_vars

\* C19's case: planned Slots whose jitter reaches the magnitude of their
\* kind, a reel Slot 12 minutes early among them
C19_Witness ==
    \E i \in DOMAIN schedules :
        /\ schedules[i].kind = "reel"
        /\ schedules[i].jitter_sec = -12 * 60
        /\ schedules[i].scheduled_time_utc = schedules[i].planned_time_utc - 12

\* C20: the planned_time stored on a Slot is the un-jittered target
\* instant: the candidate base instant for a Slot of the daily plan, the
\* base time for a Slot of the weekly plan
C20_PlannedIsUnjittered ==
    [][/\ \A kind \in {"meme", "story"}, i \in 0..MaxPlanIdx, s \in DaySlots :
              plan_day_slot(kind, i, s) =>
                  Created.planned_time_utc
                      = to_utc_iso_z(CandidateMinute(i, IF kind = "meme" THEN 60 ELSE 30))
       /\ \A kind \in {"meme", "story"}, t \in base_meme_times \cup base_story_times, jitter \in -15..15 :
              plan_week_slot(kind, t, 15, 7, jitter) =>
                  Created.planned_time_utc = to_utc_iso_z(t)]_vars

\* C21: called with count >= 1, the weighted-random planner returns at most
\* count instants, strictly ascending, all within [00:00, 24:00) of the
\* target day; it returns (a shorter list) when fewer than count candidates
\* were accepted.
C21_PlannerContract ==
    (trial.op = "plan_randomized_slots_ist" /\ trial.count >= 1) =>
        /\ Len(trial.slots) <= trial.count
        /\ \A i \in DOMAIN trial.slots : 0 <= trial.slots[i] /\ trial.slots[i] < DayMinutes
        /\ \A i, j \in DOMAIN trial.slots : i < j => trial.slots[i] < trial.slots[j]

\* an under-filled return: two instants asked, one returned
C21_Witness ==
    /\ trial.op = "plan_randomized_slots_ist"
    /\ trial.count = 2
    /\ Len(trial.slots) = 1

\* C22: a count of zero makes the planner return the empty sequence, and
\* plan_day with count zero for a kind creates no Slot of that kind.
C22_ZeroCount ==
    /\ (trial.op = "plan_randomized_slots_ist" /\ trial.count = 0) => trial.slots = <<>>
    /\ (trial.op = "plan_day" /\ trial.count_memes = 0) =>
           \A i \in DOMAIN schedules : schedules[i].kind # "meme"
    /\ (trial.op = "plan_day" /\ trial.count_stories = 0) =>
           \A i \in DOMAIN schedules : schedules[i].kind # "story"

\* plan_day ran with no stories asked and created a meme Slot
C22_Witness ==
    /\ trial.op = "plan_day"
    /\ trial.count_stories = 0
    /\ \E i \in DOMAIN schedules : schedules[i].kind = "meme"

\* the multiset of (kind, planned_time) of a schedules table
KindPlanned(tbl) ==
    LET keys == {<<tbl[i].kind, tbl[i].planned_time_utc>> : i \in DOMAIN tbl}
    IN [k \in keys |-> Cardinality({i \in DOMAIN tbl : <<tbl[i].kind, tbl[i].planned_time_utc>> = k})]

\* C23: for the same start day and number of days, the import of an
\* exported week plan creates the same multiset of Slots, compared by
\* (kind, planned_time), as plan_week creates.
C23_ExportImportIsPlanWeek ==
    trial.op = "export_ingest" =>
        \A direct \in plan_week({<<>>}, 0, trial.days, 0, 0) :
            KindPlanned(schedules) = KindPlanned(direct)

\* C24: an import that meets a malformed record fails before any
\* persistence: no Slot is created, not even for the valid records that
\* precede it.
C24_ImportAllOrNothing ==
    (trial.op = "ingest_week_plan_json" /\ trial.raised) => schedules = <<>>

\* C25: creating an image set from a list with fewer than 2 usable image
\* references raises and creates no record; with more than 10 the record
\* is created from exactly the first 10, in the given order.
C25_UrlsValidated ==
    [][\A image_urls \in UrlInputs :
          CreateCarouselFromUrls(image_urls) =>
              LET usable == SelectSeq(image_urls, LAMBDA u : u # "")
              IN /\ Len(usable) < 2 => (trial'.raised /\ carousels' = carousels)
                 /\ Len(usable) >= 2 =>
                        /\ ~trial'.raised
                        /\ Len(carousels') = Len(carousels) + 1
                        /\ SubSeq(carousels', 1, Len(carousels)) = carousels
                 /\ Len(usable) > 10 =>
                        carousels'[Len(carousels')] = SubSeq(usable, 1, 10)]_vars

\* a record was created from a list of eleven usable references
C25_Witness ==
    /\ trial.op = "create_carousel_from_urls"
    /\ ~trial.raised
    /\ Len(SelectSeq(trial.image_urls, LAMBDA u : u # "")) = 11
    /\ Len(carousels) >= 1
    /\ Len(carousels[Len(carousels)]) = 10

\* C26: after any sequence of image-set creations, successful or failing,
\* every persisted image-set record holds between 2 and 10 images.
C26_ImageSetSize ==
    \A c \in DOMAIN carousels : 2 <= Len(carousels[c]) /\ Len(carousels[c]) <= 10

RefTags(name) ==
    LET row == hashtag_pools[name]
        csv == IF row.present /\ row.active = 1 THEN row.tags_csv ELSE <<>>
        kept == {k \in DOMAIN csv : Strip(csv[k]) # ""}
    IN [n \in 1..Cardinality(kept) |->
           Strip(csv[CHOOSE k \in kept : Cardinality({q \in kept : q <= k}) = n])]

RefPool(schedule_id, i) ==
    LET tags == RefTags(pools[i + 1])
        len == Len(tags)
        cap == IF i = 3 THEN 5 ELSE 8
    IN IF len = 0 THEN <<>>
       ELSE [k \in 1..(IF cap <= len THEN cap ELSE len) |->
                tags[((((schedule_id + 3 * i) % len) + k - 1) % len) + 1]]

RefConcat(schedule_id) ==
    RefPool(schedule_id, 0) \o RefPool(schedule_id, 1) \o RefPool(schedule_id, 2) \o RefPool(schedule_id, 3)

\* the tags of s whose position passes the filter, in order
RefKeep(s, keep(_)) ==
    LET kept == {p \in DOMAIN s : keep(p)}
    IN [n \in 1..Cardinality(kept) |->
           s[CHOOSE p \in kept : Cardinality({q \in kept : q <= p}) = n]]

RefRender(tags) == Join(SubSeq(tags, 1, IF Len(tags) <= 25 THEN Len(tags) ELSE 25))

\* C28 as stated: the output is the concatenation of the rotated pool
\* heads, cut to 25 tags, each rendered as a #-prefixed token.
C28_Original ==
    trial.op = "_rotate_hashtags" => trial.out = RefRender(RefConcat(trial.schedule_id))

\* C28: the output is the concatenation of the rotated pool heads (first 8
\* tags, 5 for regional, of each active non-empty pool rotated left by
\* (schedule_id + 3 i) mod len), without the tags that already occur
\* earlier in it as the same string, cut to 25 tags, each rendered as a
\* #-prefixed token.
C28_RotationReference ==
    trial.op = "_rotate_hashtags" =>
        LET all == RefConcat(trial.schedule_id)
        IN trial.out = RefRender(RefKeep(all, LAMBDA p : \A q \in 1..(p - 1) : all[q] # all[p]))

\* the 25-tag cut applied, and a tag shared by two pools removed
C28_Witness ==
    /\ trial.op = "_rotate_hashtags"
    /\ Len(RefConcat(trial.schedule_id)) > 25
    /\ \E p, q \in DOMAIN RefConcat(trial.schedule_id) :
           p < q /\ RefConcat(trial.schedule_id)[p] = RefConcat(trial.schedule_id)[q]

\* lower-casing of the tags the pools are written with
Lower(t) == CASE t = "A" -> "a" [] OTHER -> t

\* C29: the rotator's output contains no two tags that are equal ignoring
\* letter case.
C29_CaseInsensitiveDedupe ==
    trial.op = "_rotate_hashtags" =>
        \A p, q \in DOMAIN trial.tags : p # q => Lower(trial.tags[p]) # Lower(trial.tags[q])

\* C30: a caption variant, once written for (meme_id, variant_no), is never
\* changed except for its active flag: no later operation rewrites its
\* caption or hashtag text.
C30_VariantImmutable ==
    [][\A c \in captions : \A d \in captions' :
          (d.meme_id = c.meme_id /\ d.variant_no = c.variant_no)
              => (d.caption_text = c.caption_text /\ d.hashtags = c.hashtags)]_vars

\* C31: a content unit's status only moves forward along new -> ready ->
\* queued -> posted|failed: no step takes it from queued, posted or failed
\* back to ready or new, and posted and failed are never left.
C31_StatusForward ==
    [][\A m \in DOMAIN memes :
          /\ memes[m].status \in {"queued", "posted", "failed"} => memes'[m].status \notin {"new", "ready"}
          /\ memes[m].status \in {"posted", "failed"} => memes'[m].status = memes[m].status]_vars

\* the Post rows of a Slot, in the order they were appended
PostRowsOf(tbl, i) == SelectSeq(tbl, LAMBDA r : r.schedule_id = i)

\* C32: a Slot that is posted or failed has at least one Post row, the
\* outcome of its most recently appended Post row equals the Slot's
\* status, and the status update and the Post row of one attempt become
\* visible in the same step.
C32_StatusIsLastAttempt ==
    [][/\ \A i \in DOMAIN schedules' :
             schedules'[i].status \in {"posted", "failed"} =>
                 /\ PostRowsOf(posts', i) # <<>>
                 /\ PostRowsOf(posts', i)[Len(PostRowsOf(posts', i))].status = schedules'[i].status
       /\ \A i \in DOMAIN schedules :
             /\ schedules'[i].status # schedules[i].status
                    => Len(PostRowsOf(posts', i)) = Len(PostRowsOf(posts, i)) + 1
             /\ Len(PostRowsOf(posts', i)) # Len(PostRowsOf(posts, i))
                    => schedules'[i].status = PostRowsOf(posts', i)[Len(PostRowsOf(posts', i))].status]_vars

\* a Slot attempted twice: posted first, failed by the later attempt
C32_Witness ==
    \E i \in DOMAIN schedules :
        /\ schedules[i].status = "failed"
        /\ Len(PostRowsOf(posts, i)) = 2
        /\ PostRowsOf(posts, i)[1].status = "posted"
        /\ PostRowsOf(posts, i)[2].status = "failed"

\* C33: the tag text sent with a publish is the content's (or the bound
\* variant's) own tags merged with the rotated tag set with duplicates
\* removed: no tag occurs twice in the merged text
C33_NoDuplicateTag ==
    \A i \in DOMAIN handed : \A n \in DOMAIN handed[i] :
        LET tags == handed[i][n].tags
        IN \A a, b \in DOMAIN tags : a # b => tags[a] # tags[b]

\* the rotation of the pools as they are in this state for Slot i, as
\* '#tag' tokens
RefTokens(i) ==
    LET all == RefConcat(i)
        ref == RefKeep(all, LAMBDA p : \A q \in 1..(p - 1) : all[q] # all[p])
    IN [k \in 1..Min(Len(ref), 25) |-> "#" \o ref[k]]

\* the Publisher is called for Slot i in this step
HandedNow(i) == Len(handed'[i]) = Len(handed[i]) + 1
LastHanded(i) == handed'[i][Len(handed'[i])]
IsSuffix(s, t) == Len(s) <= Len(t) /\ SubSeq(t, Len(t) - Len(s) + 1, Len(t)) = s
IsPrefix(s, t) == Len(s) <= Len(t) /\ SubSeq(t, 1, Len(s)) = s

\* C34: the rotated tags sent with a publish are computed from the pools
\* as they are at the dispatch step, with the Slot's own id as rotation
\* key, also when a pool was written after the Slot was bound; a Slot
\* carries no tag text (the binding step writes the content reference and
\* the variant number only)
C34_RotationAtDispatch ==
    [][\A i \in DOMAIN handed :
          /\ HandedNow(i) => IsSuffix(RefTokens(i), LastHanded(i).tags)
          /\ i \in DOMAIN schedules /\ RefOf(schedules[i]) = NULL /\ RefOf(schedules'[i]) # NULL =>
                 schedules'[i] = [schedules[i] EXCEPT !.meme_id = schedules'[i].meme_id,
                                                      !.caption_variant_no = schedules'[i].caption_variant_no]]_vars

\* C34's case: a pool was written while the Slot was bound and queued, the
\* Slot was dispatched afterwards and the tags sent end with the rotation
\* of the written pool
C34_Witness ==
    /\ trial.op = "upsert_hashtag_pool"
    /\ \E i \in trial.bound :
          /\ schedules[i].status = "posted"
          /\ handed[i] # <<>>
          /\ RefTokens(i) # <<>>
          /\ IsSuffix(RefTokens(i), handed[i][Len(handed[i])].tags)

\* the active variant a Slot row names, as the captions table has it
VariantOf(r) ==
    {c \in captions : c.meme_id = r.meme_id /\ c.variant_no = r.caption_variant_no /\ c.active}

\* C35: when a meme Slot with a bound caption_variant_no is dispatched, the
\* Publisher is called, with the caption and tags of that variant if it
\* exists and is active at that step, and with the content's base caption
\* and tags if it is missing or retired
C35_VariantOverride ==
    [][\A i \in DOMAIN schedules :
          /\ disp[1].pc = "run"
          /\ disp'[1] # disp[1]
          /\ CurrentRow(1).id = i
          /\ CurrentRow(1).kind = "meme"
          /\ CurrentRow(1).meme_id # NULL
          /\ schedules[i].caption_variant_no # NULL
          => /\ HandedNow(i)
             /\ IF VariantOf(schedules[i]) # {}
                THEN \E c \in VariantOf(schedules[i]) :
                        /\ LastHanded(i).caption = c.caption_text
                        /\ IsPrefix(c.hashtags, LastHanded(i).tags)
                        /\ Len(LastHanded(i).tags) = Len(c.hashtags) + Len(RefTokens(i))
                ELSE /\ LastHanded(i).caption = memes[schedules[i].meme_id].caption
                     /\ IsPrefix(memes[schedules[i].meme_id].hashtags, LastHanded(i).tags)
                     /\ Len(LastHanded(i).tags) =
                            Len(memes[schedules[i].meme_id].hashtags) + Len(RefTokens(i))]_vars

\* C35's cases, in one state: a Slot published with the text of its second
\* variant, which is not the meme's own, and a Slot whose variant was
\* retired published with the meme's own text
C35_WitnessActive ==
    \E i \in DOMAIN schedules :
        /\ schedules[i].status = "posted"
        /\ schedules[i].caption_variant_no = 2
        /\ handed[i] # <<>>
        /\ VariantOf(schedules[i]) # {}
        /\ handed[i][1].caption = "c2"
        /\ memes[schedules[i].meme_id].caption = "c1"

C35_WitnessRetired ==
    \E i \in DOMAIN schedules :
        /\ schedules[i].status = "posted"
        /\ schedules[i].caption_variant_no = 2
        /\ handed[i] # <<>>
        /\ VariantOf(schedules[i]) = {}
        /\ handed[i][1].caption = "c1"
        /\ \E c \in captions : /\ c.meme_id = schedules[i].meme_id /\ c.variant_no = 2
                                /\ c.caption_text = "c2" /\ ~c.active

C35_Witness == C35_WitnessActive /\ C35_WitnessRetired

\* C36: the variant-selecting assignment binds to a Slot a variant number
\* that is one of the active caption variants of the content unit it
\* binds to that Slot, or leaves the variant unset when that content unit
\* has no active variant
C36_VariantOfBoundUnit ==
    [][\A i \in DOMAIN schedules :
          schedules[i].meme_id = NULL /\ schedules'[i].meme_id # NULL =>
              LET act == {c.variant_no : c \in {x \in captions :
                              x.meme_id = schedules'[i].meme_id /\ x.active}}
              IN IF act = {} THEN schedules'[i].caption_variant_no = NULL
                 ELSE schedules'[i].caption_variant_no \in act]_vars

\* C36's cases: a Slot bound to a meme with its only active variant, 1,
\* while the other meme has an active variant 2, and a Slot bound with no
\* variant to a meme whose variants are all retired
C36_Witness ==
    \E i \in DOMAIN schedules :
        /\ schedules[i].meme_id # NULL
        /\ schedules[i].caption_variant_no = 1
        /\ schedules[i].status = "queued"
        /\ \A c \in captions : c.meme_id = schedules[i].meme_id /\ c.active => c.variant_no = 1
        /\ \E c \in captions : c.meme_id # schedules[i].meme_id /\ c.variant_no = 2 /\ c.active

\* the Slots of a kind that plan_week's day d holds, by the IST day of
\* their planned_time
DaySlotsOf(kind, d) ==
    {i \in DOMAIN schedules :
        /\ schedules[i].kind = kind
        /\ (schedules[i].planned_time_utc + IstOffsetMin) \div DayMinutes = d}

\* C37: the weekly planner creates, for each of the planned days, exactly
\* 12 meme Slots and exactly 24 story Slots, one story Slot per half-hour
\* target from 10:00 to 21:30: no two story Slots of one day share the
\* same planned_time
C37_WeekCounts ==
    trial.op = "plan_week" =>
        \A d \in 0..(trial.days - 1) :
            /\ Cardinality(DaySlotsOf("meme", d)) = 12
            /\ Cardinality(DaySlotsOf("story", d)) = 24
            /\ \A i, j \in DaySlotsOf("story", d) :
                   i # j => schedules[i].planned_time_utc # schedules[j].planned_time_utc

\* the kind of Slot an assignment pass of a mode binds
KindOfMode(mode) == IF mode = "story" THEN "story" ELSE "meme"

\* C38: an assignment pass changes only the content reference (and
\* caption_variant_no) of the Slots it binds: the Slots it fetched when it
\* started, which were then of the pass's kind, queued and unbound, stay
\* its only targets, and a step of the pass writes at most the content
\* reference and caption_variant_no of the one Slot it is at, leaving the
\* status, planned_time, scheduled_time and priority of every Slot as they
\* were
C38_AssignFrame ==
    [][/\ asg[1].pc = "idle" /\ asg'[1].pc = "run" =>
              /\ schedules' = schedules
              /\ \A n \in DOMAIN asg'[1].open :
                     LET r == schedules[asg'[1].open[n]]
                     IN /\ r.kind = KindOfMode(asg'[1].mode)
                        /\ r.status = "queued"
                        /\ RefOf(r) = NULL
       /\ asg[1].pc = "run" /\ asg'[1].pc = "run" =>
              asg'[1].open = asg[1].open /\ asg'[1].mode = asg[1].mode
       /\ AssignMoves(1) =>
              \A i \in DOMAIN schedules :
                  \/ schedules'[i] = schedules[i]
                  \/ /\ i = asg[1].open[asg[1].k]
                     /\ schedules'[i] =
                            IF asg[1].mode = "story"
                            THEN [schedules[i] EXCEPT !.story_id = schedules'[i].story_id]
                            ELSE [schedules[i] EXCEPT !.meme_id = schedules'[i].meme_id,
                                                      !.caption_variant_no = schedules'[i].caption_variant_no]]_vars

\* C38's case: a meme Slot bound by a pass and still queued, beside a
\* story Slot that was published unbound and a pass never wrote
C38_Witness ==
    \E i, j \in DOMAIN schedules :
        /\ schedules[i].kind = "meme"
        /\ schedules[i].meme_id # NULL
        /\ schedules[i].status = "queued"
        /\ schedules[j].kind = "story"
        /\ schedules[j].status = "posted"
        /\ schedules[j].story_id = NULL

\* C39: for every Slot created by any path (daily plan, weekly plan, plan
\* import, reel or image-set scheduling), scheduled_time = planned_time +
\* jitter_sec seconds (the model's instants are minutes)
C39_ScheduledIsPlannedPlusJitter ==
    \A i \in DOMAIN schedules :
        schedules[i].scheduled_time_utc * 60 = schedules[i].planned_time_utc * 60 + schedules[i].jitter_sec

\* C39's case: a story Slot of the weekly plan seven minutes late
C39_Witness ==
    \E i \in DOMAIN schedules :
        /\ schedules[i].kind = "story"
        /\ schedules[i].jitter_sec = 7 * 60
        /\ schedules[i].scheduled_time_utc = schedules[i].planned_time_utc + 7

====
